---- MODULE Spec2Model ----
(***************************************************************************)
(* PredictorBot: the per-pair order book (snapshot + depth diffs), its     *)
(* synchronisation and reinitialisation, the analysis cycle that reads it, *)
(* and the decision procedure determineCompositeSignal.                    *)
(*                                                                         *)
(* One trading pair is modelled: marketData is keyed by symbol and no      *)
(* handler touches another symbol's entry.                                 *)
(*                                                                         *)
(* Numbers.  Prices and quantities reach the bot as decimal strings and    *)
(* are turned into numbers by parseFloat; the wire alphabet below is a     *)
(* finite set of such strings and parseFloat is the table over it.  The    *)
(* price band of cleanupOrderBook is computed in exact integer arithmetic  *)
(* (p >= mid * 0.9  <=>  200 p >= 90 (bestBid + bestAsk)); the prices of   *)
(* the alphabet are chosen so that no comparison is a tie, where floating  *)
(* point rounding could differ.                                            *)
(***************************************************************************)
EXTENDS Integers, Sequences, FiniteSets, TLC

VARIABLES
    orderBook,              \* marketData[symbol].orderBook
    previousOrderBook,      \* marketData[symbol].previousOrderBook
    needsReinitialization,  \* marketData[symbol].needsReinitialization
    bufferingUpdates,       \* marketData[symbol].bufferingUpdates
    reinitTimeout,          \* marketData[symbol]._reinitTimeout is pending
    syncPc,                 \* position of synchronizeOrderBookSnapshots
    retries,                \* its local `retries`
    reinitPc,               \* position of reinitializeOrderBook
    analyzePc,              \* position of analyzeMarket
    now,                    \* Date.now()
    last,                   \* history: the last handler step and its inputs
    syncFailures,           \* history: failed fetches of the initial sync
    preSnapshotEvents,      \* history: depth events received while buffering
    gapPending,             \* history: a gap was marked, no snapshot since
    candleAnalysis,         \* performMarketAnalysis: candleAnalysis
    obAnalysis,             \* performMarketAnalysis: obAnalysis.signals
    candleVolume,           \* volume of candles[candles.length - 1]
    signalScore,            \* performMarketAnalysis: signalScore
    compositeSignal,        \* performMarketAnalysis: compositeSignal
    heap,                   \* the objects: books, arrays and levels
    orderBookRef,           \* marketData[symbol].orderBook, the object
    previousOrderBookRef,   \* marketData[symbol].previousOrderBook, the object
    held,                   \* history: the book held before the last depth event
    scoreInputs,            \* calculateSignalScore: candleSignals, obSignals, last volume
    raisedSignal,           \* the sub-signal raised for the second evaluation
    scoreBefore,            \* calculateSignalScore's result on scoreInputs
    scoreAfter,             \* its result with raisedSignal raised
    lastSignalTimes,        \* this.lastSignalTimes: symbol -> time of its last alert
    clock,                  \* Date.now()
    alerts,                 \* history: the alerts telegramBotHandler has sent
    lastAlert,              \* history: the last call of handleSignalAlert
    candles,                \* marketData[symbol].candles
    closed,                 \* history: which stored candles came from a closing event
    lastKline,              \* history: the last kline event and the list before it
    isRunning,              \* this.isRunning
    loopPc,                 \* where runAnalysis is
    analysis,               \* the cycle's analyzeMarket calls: symbol -> state
    cyclesStarted,          \* history: calls of executeAnalysisCycle
    cyclesFinished,         \* history: cycles whose Promise.all has settled
    output,                 \* history: what the last cycle passed to logAnalysisResults
    shutdownAt,             \* history: the cycles started and finished when shutdown was called
    priceInputs,            \* calculateSuggestedPrices: its arguments
    suggestedPrices,        \* calculateSuggestedPrices: its result
    bookReading,            \* OrderBookAnalyzer.analyze: the book and what is measured on it
    bookSignals,            \* OrderBookAnalyzer.analyze: signals
    loops,                  \* runAnalysis calls: where each one is, and its timer
    bootPc,                 \* BootManager: where the boot sequence is
    bootWait,               \* seconds left of the wait of the boot sequence
    boots,                  \* boot sequences started
    marketData,             \* this.marketData: per pair, its objects and its flags
    marketHeap,             \* the book objects and the candle arrays of marketData
    pairOp,                 \* history: the last handler and its pair
    pairOps,                \* handlers run on marketData
    botTestMode,            \* this.testMode of the bot whose alerts are followed
    depthCall,              \* one call of a depth-update function: arguments, result
    isShuttingDown,         \* exchangeManager.isShuttingDown
    sockets,                \* exchangeManager.sockets: stream key -> WebSocket
    ws,                     \* the WebSocket objects: stream, readyState, 'close' listener
    reconnectTimeouts,      \* exchangeManager.reconnectTimeouts: stream key -> timer
    timers,                 \* the reconnection timers set with setTimeout
    subscribers,            \* exchangeManager.subscribers: does the stream have a callback?
    exchangeBoot,           \* the position of executeBootSequence
    socketOp                \* history: the last operation on the connections

pairVars == <<orderBook, previousOrderBook, needsReinitialization, bufferingUpdates,
          reinitTimeout, syncPc, retries, reinitPc, analyzePc, now, last,
          syncFailures, preSnapshotEvents, gapPending>>

decisionVars == <<candleAnalysis, obAnalysis, candleVolume, signalScore, compositeSignal>>

heapVars == <<heap, orderBookRef, previousOrderBookRef, held>>

scoreVars == <<scoreInputs, raisedSignal, scoreBefore, scoreAfter>>

alertVars == <<lastSignalTimes, clock, alerts, lastAlert>>

klineVars == <<candles, closed, lastKline>>

loopVars == <<isRunning, loopPc, analysis, cyclesStarted, cyclesFinished, output,
              shutdownAt>>

\* The state of the operations that are followed on their own.
priceVars == <<priceInputs, suggestedPrices>>
bookSignalVars == <<bookReading, bookSignals>>
bootVars == <<loops, bootPc, bootWait, boots>>
marketVars == <<marketData, marketHeap, pairOp, pairOps>>
socketVars == <<isShuttingDown, sockets, ws, reconnectTimeouts, timers, subscribers,
                exchangeBoot, socketOp>>
extraVars == <<botTestMode, depthCall, socketVars>>
restVars == <<priceVars, bookSignalVars, bootVars, marketVars, extraVars>>

botVars == <<scoreVars, alertVars, klineVars, loopVars, restVars>>

vars == <<pairVars, decisionVars, heapVars, botVars>>

-----------------------------------------------------------------------------
(* Bounds of the model *)

\* Date.now() values run from 0 to MaxTime: at most MaxTime book mutations.
MaxTime == 3

\* Depth events carry update ids up to MaxUpdateId.
MaxUpdateId == 240

\* Failed fetches of the initial synchronisation that are followed.
MaxSyncFailures == 4

\* Depth events received during the buffering window that are followed.
MaxPreSnapshotEvents == 1

-----------------------------------------------------------------------------
(* Program constants *)

\* `const maxLevels = 500` in cleanupOrderBook, scaled down to 2 so that a
\* side can outgrow it within the price alphabet.
maxLevels == 2

\* `const cleanupRange = 0.10`, in percent.
cleanupRange == 10

\* `data.U > currentOrderBook.lastUpdateId + 100`
GAP_THRESHOLD == 100

\* `let retries = 3` in synchronizeOrderBookSnapshots
SYNC_RETRIES == 3

-----------------------------------------------------------------------------
(* The wire alphabet and parseFloat *)

WireBidPrices == {"91.00", "99.00", "100.00"}
WireAskPrices == {"101.00", "109.00"}

parseFloat(s) ==
    CASE s = "91.00"  -> 91
      [] s = "99.00"  -> 99
      [] s = "100.00" -> 100
      [] s = "101.00" -> 101
      [] s = "109.00" -> 109
      [] s = "0.000"  -> 0
      [] s = "2.000"  -> 2
      [] s = "5.000"  -> 5

\* b => [parseFloat(b[0]), parseFloat(b[1])]
ParseLevels(raw) == [i \in 1..Len(raw) |-> <<parseFloat(raw[i][1]), parseFloat(raw[i][2])>>]

-----------------------------------------------------------------------------
(* Sequences *)

\* Array.prototype.slice(0, n)
Slice(s, n) == IF Len(s) > n THEN SubSeq(s, 1, n) ELSE s

\* The comparators of the two sorts: does level x go before level y?
Before(x, y, descending) == IF descending THEN x[1] > y[1] ELSE x[1] < y[1]

\* Insert x into the sorted sequence s behind every element that does not
\* come after it.
RECURSIVE InsertSorted(_, _, _)
InsertSorted(x, s, descending) ==
    IF s = <<>> THEN <<x>>
    ELSE IF Before(x, Head(s), descending) THEN <<x>> \o s
         ELSE <<Head(s)>> \o InsertSorted(x, Tail(s), descending)

\* Array.prototype.sort with a comparator on the price (a stable sort).
RECURSIVE Sort(_, _)
Sort(s, descending) ==
    IF s = <<>> THEN <<>>
    ELSE InsertSorted(s[Len(s)], Sort(SubSeq(s, 1, Len(s) - 1), descending), descending)

\* bids.sort((a, b) => b[0] - a[0])
SortBids(levels) == Sort(levels, TRUE)

\* asks.sort((a, b) => a[0] - b[0])
SortAsks(levels) == Sort(levels, FALSE)

-----------------------------------------------------------------------------
(* ExchangeManager: the order book *)

\* JavaScript's null, as a book: what processIncrementalDepthUpdate returns
\* for a gap and getOrderBookSnapshot for a failed fetch.
null == [bids |-> <<>>, asks |-> <<>>, lastUpdateId |-> -1, timestamp |-> -1]

\* No update id: the `lastUpdateId: null` of initializeMarketData.  The code
\* reads lastUpdateId only through the truthiness test of line 547, which
\* does not tell null from 0.
NoUpdateId == 0

\* deepCopyOrderBook: a new book with new level arrays.  Books are values
\* here; the object identities are modelled in the Heap specification.
deepCopyOrderBook(book) ==
    IF book = null THEN null
    ELSE [bids |-> book.bids, asks |-> book.asks,
          lastUpdateId |-> book.lastUpdateId, timestamp |-> book.timestamp]

\* bid[0] >= currentPrice * (1 - cleanupRange), currentPrice the mean of
\* bestBid and bestAsk.
AboveMinPrice(price, bestBid, bestAsk) ==
    200 * price >= (bestBid + bestAsk) * (100 - cleanupRange)

\* ask[0] <= currentPrice * (1 + cleanupRange)
BelowMaxPrice(price, bestBid, bestAsk) ==
    200 * price <= (bestBid + bestAsk) * (100 + cleanupRange)

\* cleanupOrderBook: nothing when a side is empty; else the price band
\* around the mean of the FIRST bid and the FIRST ask, then the first
\* maxLevels levels of each side.
cleanupOrderBook(book) ==
    IF book.bids = <<>> \/ book.asks = <<>> THEN book
    ELSE LET bestBid == book.bids[1][1]
             bestAsk == book.asks[1][1]
             bids == SelectSeq(book.bids, LAMBDA bid : AboveMinPrice(bid[1], bestBid, bestAsk))
             asks == SelectSeq(book.asks, LAMBDA ask : BelowMaxPrice(ask[1], bestBid, bestAsk))
         IN  [book EXCEPT !.bids = Slice(bids, maxLevels),
                          !.asks = Slice(asks, maxLevels)]

\* KeepsLevel with `>=` for `>`: a level of quantity 0 is pushed.
KeepsLevelOrZero(numQty) == numQty >= 0

\* if (numQty > 0) levels.push([numPrice, numQty])
KeepsLevel(numQty) == numQty > 0

\* One entry of data.b / data.a: drop the level at that price, push the new
\* one at the end when its quantity is positive.
ApplyChange(levels, change) ==
    LET numPrice == parseFloat(change[1])
        numQty == parseFloat(change[2])
        rest == SelectSeq(levels, LAMBDA level : level[1] # numPrice)
    IN  IF KeepsLevel(numQty) THEN Append(rest, <<numPrice, numQty>>) ELSE rest

\* data.b.forEach(...) / data.a.forEach(...)
RECURSIVE ApplyChanges(_, _)
ApplyChanges(levels, changes) ==
    IF changes = <<>> THEN levels
    ELSE ApplyChanges(ApplyChange(levels, Head(changes)), Tail(changes))

\* The tail shared by processIncrementalDepthUpdate and applyDepthUpdate:
\* copy, apply b and a, cleanupOrderBook, sort, stamp.
UpdatedCopy(data, currentOrderBook, time) ==
    LET orderBookCopy == deepCopyOrderBook(currentOrderBook)
        changed == [orderBookCopy EXCEPT !.bids = ApplyChanges(@, data.b),
                                         !.asks = ApplyChanges(@, data.a)]
        cleaned == cleanupOrderBook(changed)
    IN  [bids |-> SortBids(cleaned.bids), asks |-> SortAsks(cleaned.asks),
         lastUpdateId |-> data.u, timestamp |-> time]

\* The book made of an event alone, when there is no current book.
ColdStart(data, time) ==
    [bids |-> ParseLevels(data.b), asks |-> ParseLevels(data.a),
     lastUpdateId |-> data.u, timestamp |-> time]

\* IsStale with `<` for `<=`: an event ending at lastUpdateId is applied.
IsStaleStrict(data, currentOrderBook) ==
    /\ currentOrderBook.lastUpdateId # NoUpdateId
    /\ data.u < currentOrderBook.lastUpdateId

\* data.u <= currentOrderBook.lastUpdateId
IsStale(data, currentOrderBook) ==
    /\ currentOrderBook.lastUpdateId # NoUpdateId
    /\ data.u <= currentOrderBook.lastUpdateId

\* IsGap one id late: U = lastUpdateId + 101 is still bridged.
IsGapLate(data, currentOrderBook) ==
    /\ currentOrderBook.lastUpdateId # NoUpdateId
    /\ data.U > currentOrderBook.lastUpdateId + GAP_THRESHOLD + 1

\* IsGap by the rule of the exchange: an update id between lastUpdateId
\* and U was never received.
IsGapOnMissingId(data, currentOrderBook) ==
    /\ currentOrderBook.lastUpdateId # NoUpdateId
    /\ data.U > currentOrderBook.lastUpdateId + 1

\* data.U > currentOrderBook.lastUpdateId + 100
IsGap(data, currentOrderBook) ==
    /\ currentOrderBook.lastUpdateId # NoUpdateId
    /\ data.U > currentOrderBook.lastUpdateId + GAP_THRESHOLD

\* ExchangeManager.processIncrementalDepthUpdate(data, currentOrderBook),
\* Date.now() being `time`.
processIncrementalDepthUpdate(data, currentOrderBook, time) ==
    IF currentOrderBook = null THEN ColdStart(data, time)
    ELSE IF IsStale(data, currentOrderBook) THEN currentOrderBook
    ELSE IF IsGap(data, currentOrderBook) THEN null
    ELSE UpdatedCopy(data, currentOrderBook, time)

\* BinancePredictiveBot.applyDepthUpdate(data, currentOrderBook): the same
\* without the sequence checks.
applyDepthUpdate(data, currentOrderBook, time) ==
    IF currentOrderBook = null THEN ColdStart(data, time)
    ELSE UpdatedCopy(data, currentOrderBook, time)

\* ExchangeManager.getOrderBookSnapshot, for a response of the REST depth
\* request: the parsed book, stamped.  A request that throws or a malformed
\* response is caught inside and yields null (see FetchFails below).
getOrderBookSnapshot(response, time) ==
    [bids |-> ParseLevels(response.bids), asks |-> ParseLevels(response.asks),
     lastUpdateId |-> response.lastUpdateId, timestamp |-> time]

-----------------------------------------------------------------------------
(* The exchange: what the feed and the REST endpoint can send *)

DiffQuantities == {"0.000", "2.000"}
SnapshotQuantities == {"5.000"}

SnapshotIds == {10}

\* The changes <<b, a>> of the depth events followed: none, one level of
\* one side, or one bid price twice (set, then removed, and the reverse).
EventChanges ==
    {<<<<>>, <<>>>>}
    \cup {<<<<c>>, <<>>>> : c \in WireBidPrices \X DiffQuantities}
    \cup {<<<<>>, <<c>>>> : c \in WireAskPrices \X DiffQuantities}
    \cup {<<<<<<p, q[1]>>, <<p, q[2]>>>>, <<>>>> :
             p \in WireBidPrices,
             q \in {r \in DiffQuantities \X DiffQuantities : r[1] # r[2]}}

\* The changes of the events followed through the whole life of a pair.
FewChanges ==
    {<<<<>>, <<>>>>,
     <<<<<<"100.00", "2.000">>>>, <<>>>>,
     <<<<>>, <<<<"101.00", "0.000">>>>>>}

\* Update ids <<U, u>> from a book at lastUpdateId L.  Applied: next in
\* sequence, and at the gap threshold.
AppliedIds(L) == {<<L + 1, L + 1>>, <<L + GAP_THRESHOLD, L + GAP_THRESHOLD>>}

\* Ending at L (stale), and just beyond the threshold (a gap).
RejectedIds(L) ==
    {id \in {<<L - 1, L>>, <<L + GAP_THRESHOLD + 1, L + GAP_THRESHOLD + 1>>} : id[1] >= 1}

Event(id, changes) == [U |-> id[1], u |-> id[2], b |-> changes[1], a |-> changes[2]]

\* The depth events followed from a book at lastUpdateId L, with the given
\* changes.  A stale event and a gap are followed with one list of changes
\* (a bid that is not in any snapshot), since theirs are never read.
EventsWith(L, changes) ==
    {e \in {Event(id, c) : id \in AppliedIds(L), c \in changes}
            \cup {Event(id, <<<<<<"100.00", "2.000">>>>, <<>>>>) : id \in RejectedIds(L)} :
        e.u <= MaxUpdateId}

DepthEvents(L) == EventsWith(L, EventChanges)
FewDepthEvents(L) == EventsWith(L, FewChanges)

NoEvent == [U |-> 0, u |-> 0, b |-> <<>>, a |-> <<>>]

\* The wire price of a set that parses to the highest / lowest number.
First(wirePrices, descending) ==
    CHOOSE p \in wirePrices : \A q \in wirePrices :
        q = p \/ Before(<<parseFloat(p)>>, <<parseFloat(q)>>, descending)

\* A side of a REST snapshot: the exchange sends each price once, bids from
\* the highest price down, asks from the lowest price up.
RECURSIVE Ladder(_, _)
Ladder(wirePrices, descending) ==
    IF wirePrices = {} THEN <<>>
    ELSE LET p == First(wirePrices, descending)
         IN  <<<<p, CHOOSE q \in SnapshotQuantities : TRUE>>>>
             \o Ladder(wirePrices \ {p}, descending)

SnapshotResponses ==
    {[bids |-> Ladder(B, TRUE), asks |-> Ladder(A, FALSE), lastUpdateId |-> id] :
        B \in SUBSET WireBidPrices, A \in SUBSET WireAskPrices, id \in SnapshotIds}

\* The snapshots followed through the whole life of a pair: an empty bid
\* side, and two bids, over one ask.
FewSnapshotResponses ==
    {r \in SnapshotResponses :
        /\ r.bids \in {<<>>, Ladder({"100.00", "99.00"}, TRUE)}
        /\ r.asks = Ladder({"101.00"}, FALSE)}

-----------------------------------------------------------------------------
(* The decision of one analysis cycle: calculateSignalScore,               *)
(* detectDivergence, validateLongSignal, validateShortSignal and           *)
(* determineCompositeSignal.  The candle analyser is an input: its signals *)
(* are any values of their types.  The order-book signals are those        *)
(* OrderBookAnalyzer.generateSignals can produce.                          *)

\* this.REQUIRED_SCORE
REQUIRED_SCORE == 9

\* config.riskManagement.volumeAverageMultiplier, 1.3, in tenths
volumeAverageMultiplier == 13

\* config.riskManagement.useBollingerBands
useBollingerBands == TRUE

\* What validateLongSignal and validateShortSignal return when the score is
\* below REQUIRED_SCORE: JavaScript's null, which is falsy.
nullSignal == "null"

\* What they return when a veto rejects the signal, as the null a falsy
\* result would be.
RejectedAsNull == nullSignal

\* What they return when a veto rejects the signal: `return 'neutral'`.
Rejected == "neutral"

\* String.prototype.includes on the composite signals of the order book.
Includes(signal, word) ==
    CASE word = "buy"  -> signal \in {"strong_buy", "buy", "weak_buy"}
      [] word = "sell" -> signal \in {"strong_sell", "sell", "weak_sell"}

Min(x, y) == IF x < y THEN x ELSE y

\* `if (condition) score += n`
Points(condition, n) == IF condition THEN n ELSE 0

\* isHighVolume with `>=` for `>`: a volume at the threshold passes the gate.
IsHighVolumeAtThreshold(candleSignals, lastVolume) ==
    \/ candleSignals.volumeSpike
    \/ 10 * lastVolume >= candleSignals.volumeEMA * volumeAverageMultiplier

\* isHighVolume, lines 1614-1615
IsHighVolume(candleSignals, lastVolume) ==
    \/ candleSignals.volumeSpike
    \/ 10 * lastVolume > candleSignals.volumeEMA * volumeAverageMultiplier

\* hasStrongLongBase, lines 1642-1643
HasStrongLongBase(candleSignals) ==
    \/ candleSignals.emaBullishCross \/ candleSignals.buyingPressure
    \/ candleSignals.trendConfirmed \/ candleSignals.volumeSpike

\* hasStrongShortBase, lines 1644-1645
HasStrongShortBase(candleSignals) ==
    \/ candleSignals.emaBearishCross \/ candleSignals.sellingPressure
    \/ candleSignals.downtrendConfirmed \/ candleSignals.volumeSpike

\* The order-book part of the long score with `-=` for `+=` on the support
\* line: a detected support costs a point.
LongOrderBookScoreSupportPenalised(obSignals) ==
    IF ~obSignals.inDowntrend
    THEN Points(obSignals.strongBidImbalance, 1)
         - Points(obSignals.supportDetected, 1)
         + Points(obSignals.pricePressure \in {"up", "strong_up"}, 1)
         + Points(Includes(obSignals.compositeSignal, "buy"), 1)
    ELSE -3

\* The order-book part of the long score without the penalty of line 1673:
\* a book in a downtrend adds nothing and takes nothing.
LongOrderBookScoreUnpenalised(obSignals) ==
    IF ~obSignals.inDowntrend
    THEN Points(obSignals.strongBidImbalance, 1)
         + Points(obSignals.supportDetected, 1)
         + Points(obSignals.pricePressure \in {"up", "strong_up"}, 1)
         + Points(Includes(obSignals.compositeSignal, "buy"), 1)
    ELSE 0

\* The order-book part of the long score, lines 1666-1674
LongOrderBookScore(obSignals) ==
    IF ~obSignals.inDowntrend
    THEN Points(obSignals.strongBidImbalance, 1)
         + Points(obSignals.supportDetected, 1)
         + Points(obSignals.pricePressure \in {"up", "strong_up"}, 1)
         + Points(Includes(obSignals.compositeSignal, "buy"), 1)
    ELSE -3

\* The order-book part of the short score, lines 1697-1705
ShortOrderBookScore(obSignals) ==
    IF ~obSignals.inUptrend
    THEN Points(obSignals.strongAskImbalance, 1)
         + Points(obSignals.resistanceDetected, 1)
         + Points(obSignals.pricePressure \in {"down", "strong_down"}, 1)
         + Points(Includes(obSignals.compositeSignal, "sell"), 1)
    ELSE -3

calculateSignalScore(candleSignals, obSignals, lastVolume) ==
    LET
        isUptrend == /\ candleSignals.emaFast > candleSignals.emaMedium
                     /\ candleSignals.emaMedium > candleSignals.emaSlow
        isDowntrend == /\ candleSignals.emaFast < candleSignals.emaMedium
                       /\ candleSignals.emaMedium < candleSignals.emaSlow
        isHighVolume == IsHighVolume(candleSignals, lastVolume)
        hasStrongLongBase == HasStrongLongBase(candleSignals)
        hasStrongShortBase == HasStrongShortBase(candleSignals)
        longBook == LongOrderBookScore(obSignals)
        shortBook == ShortOrderBookScore(obSignals)
        longScore ==
            IF hasStrongLongBase
            THEN Points(candleSignals.emaBullishCross, 2)
                 + Points(candleSignals.buyingPressure, 2)
                 + Points(isUptrend, 1)
                 + Points(useBollingerBands /\ candleSignals.nearLowerBand, 1)
                 + Points(~candleSignals.isOverbought, 1)
                 + 2
                 + longBook
            ELSE 0
        shortScore ==
            IF hasStrongShortBase
            THEN Points(candleSignals.emaBearishCross, 2)
                 + Points(candleSignals.sellingPressure, 2)
                 + Points(isDowntrend, 1)
                 + Points(useBollingerBands /\ candleSignals.nearUpperBand, 1)
                 + Points(candleSignals.isOverbought, 1)
                 + 2
                 + shortBook
            ELSE 0
        longAligned ==
            Points(isUptrend /\ obSignals.inUptrend /\ hasStrongLongBase, 2)
        shortAligned ==
            Points(isDowntrend /\ obSignals.inDowntrend /\ hasStrongShortBase, 2)
        maxLongScore == IF hasStrongLongBase THEN 10 ELSE 5
        maxShortScore == IF hasStrongShortBase THEN 10 ELSE 5
    IN  IF ~isHighVolume
        THEN [long |-> 0, short |-> 0]
        ELSE [long  |-> Min(longScore + longAligned, maxLongScore),
              short |-> Min(shortScore + shortAligned, maxShortScore)]

detectDivergence(candleSignals, obSignals) ==
    [bearishDivergence |->
        /\ \/ obSignals.strongBidImbalance
           \/ obSignals.compositeSignal = "strong_buy"
           \/ obSignals.compositeSignal = "buy"
        /\ \/ obSignals.inDowntrend
           \/ candleSignals.sellingPressure
           \/ candleSignals.emaBearishCross
           \/ (~candleSignals.buyingPressure /\ ~candleSignals.volumeSpike),
     bullishDivergence |->
        /\ \/ obSignals.strongAskImbalance
           \/ obSignals.compositeSignal = "strong_sell"
           \/ obSignals.compositeSignal = "sell"
        /\ \/ obSignals.inUptrend
           \/ candleSignals.buyingPressure
           \/ candleSignals.emaBullishCross
           \/ (~candleSignals.sellingPressure /\ ~candleSignals.volumeSpike)]

\* isLowVolume with 0.25 for 0.5: only a volume below a quarter of volumeEMA
\* counts as low.
IsLowVolumeQuarter(candleSignals, lastVolume) == 4 * lastVolume < candleSignals.volumeEMA

\* lastVolume < candleSignals.volumeEMA * 0.5
IsLowVolume(candleSignals, lastVolume) == 2 * lastVolume < candleSignals.volumeEMA

validateLongSignal(score, divergence, candleSignals, obSignals, lastVolume) ==
    LET hasStrongCandleSignal ==
            \/ candleSignals.emaBullishCross
            \/ candleSignals.buyingPressure
            \/ candleSignals.volumeSpike
    IN  IF score.long >= REQUIRED_SCORE
        THEN CASE divergence.bearishDivergence -> Rejected
               [] /\ obSignals.inDowntrend
                  /\ ~candleSignals.buyingPressure
                  /\ ~candleSignals.volumeSpike -> Rejected
               [] ~hasStrongCandleSignal /\ score.long < 10 -> Rejected
               [] /\ IsLowVolume(candleSignals, lastVolume)
                  /\ ~candleSignals.buyingPressure -> Rejected
               [] OTHER -> "long"
        ELSE nullSignal

validateShortSignal(score, divergence, candleSignals, obSignals, lastVolume) ==
    LET hasStrongCandleSignal ==
            \/ candleSignals.emaBearishCross
            \/ candleSignals.sellingPressure
            \/ candleSignals.volumeSpike
    IN  IF score.short >= REQUIRED_SCORE
        THEN CASE divergence.bullishDivergence -> Rejected
               [] /\ obSignals.inUptrend
                  /\ ~candleSignals.sellingPressure
                  /\ ~candleSignals.volumeSpike -> Rejected
               [] ~hasStrongCandleSignal /\ score.short < 10 -> Rejected
               [] /\ IsLowVolume(candleSignals, lastVolume)
                  /\ ~candleSignals.sellingPressure -> Rejected
               [] OTHER -> "short"
        ELSE nullSignal

\* `if (longSignal) return longSignal;`: every string but null is truthy.
Truthy(signal) == signal # nullSignal

\* determineCompositeSignal reporting both sides when both validators accept
determineCompositeSignalBoth(candleSignals, obSignals, lastVolume, score) ==
    IF candleSignals.error
    THEN "neutral"
    ELSE LET divergence == detectDivergence(candleSignals, obSignals)
             longSignal == validateLongSignal(score, divergence, candleSignals,
                                              obSignals, lastVolume)
             shortSignal == validateShortSignal(score, divergence, candleSignals,
                                                obSignals, lastVolume)
         IN  IF longSignal = "long" /\ shortSignal = "short" THEN "long,short"
             ELSE IF Truthy(longSignal) THEN longSignal
             ELSE IF Truthy(shortSignal) THEN shortSignal
             ELSE "neutral"

\* `score = signalScore || this.calculateSignalScore(...)`: performMarketAnalysis
\* always passes the score, an object, which is truthy.
determineCompositeSignal(candleSignals, obSignals, lastVolume, score) ==
    IF candleSignals.error
    THEN "neutral"
    ELSE LET divergence == detectDivergence(candleSignals, obSignals)
             longSignal == validateLongSignal(score, divergence, candleSignals,
                                              obSignals, lastVolume)
             shortSignal == validateShortSignal(score, divergence, candleSignals,
                                                obSignals, lastVolume)
         IN  IF Truthy(longSignal) THEN longSignal
             ELSE IF Truthy(shortSignal) THEN shortSignal
             ELSE "neutral"

-----------------------------------------------------------------------------
(* The inputs of a decision *)

\* OrderBookAnalyzer's config.imbalanceThreshold, 1.8, in tenths
imbalanceThreshold == 18

\* metrics.bidAskImbalance in hundredths: on either side of every threshold
\* generateSignals compares it with (0.5, 1/1.8, 0.8, 1.2, 1.5, 1.8).
Imbalances == {40, 52, 70, 100, 130, 160, 200}

\* What generateSignals reads: the metrics of the book and the closes of the
\* last three candles, by the comparisons it makes of them.
OrderBookReadings ==
    [bidAskImbalance : Imbalances,
     hasValidOrderBook : BOOLEAN, hasMeaningfulVolume : BOOLEAN,
     hasGoodDepth : BOOLEAN, isStable : BOOLEAN,
     supportLevels : 0..1, resistanceLevels : 0..1,
     bidWalls : 0..1, askWalls : 0..1,
     netVolumeChange : {-1, 0, 1},
     closes : {<<1, 2, 3>>, <<3, 2, 1>>, <<2, 2, 3>>}]

\* OrderBookAnalyzer.isUptrend
isUptrend(closes) == closes[3] > closes[2] /\ closes[2] > closes[1]

\* OrderBookAnalyzer.isDowntrend
isDowntrend(closes) == closes[3] < closes[2] /\ closes[2] < closes[1]

\* generateCompositeSignal with the wall counts compared before the
\* imbalances
generateCompositeSignalWallsFirst(signals) ==
    IF ~signals.hasMeaningfulVolume \/ ~signals.isStable THEN "neutral"
    ELSE IF signals.bidWalls > signals.askWalls * 2 THEN "weak_buy"
    ELSE IF signals.askWalls > signals.bidWalls * 2 THEN "weak_sell"
    ELSE IF /\ signals.strongBidImbalance /\ signals.supportDetected
            /\ signals.bidWalls > 0
         THEN IF signals.hasGoodDepth THEN "strong_buy" ELSE "buy"
    ELSE IF /\ signals.strongAskImbalance /\ signals.resistanceDetected
            /\ signals.askWalls > 0
         THEN IF signals.hasGoodDepth THEN "strong_sell" ELSE "sell"
    ELSE IF signals.strongBidImbalance /\ signals.supportDetected THEN "buy"
    ELSE IF signals.strongAskImbalance /\ signals.resistanceDetected THEN "sell"
    ELSE IF signals.strongBidImbalance THEN "weak_buy"
    ELSE IF signals.strongAskImbalance THEN "weak_sell"
    ELSE "neutral"

\* OrderBookAnalyzer.generateCompositeSignal.  metrics.totalBidVolume and
\* totalAskVolume exceed minVolume > 0 when hasMeaningfulVolume, so that
\* hasValidData adds nothing to its first test.
generateCompositeSignal(signals) ==
    IF ~signals.hasMeaningfulVolume \/ ~signals.isStable THEN "neutral"
    ELSE IF /\ signals.strongBidImbalance /\ signals.supportDetected
            /\ signals.bidWalls > 0
         THEN IF signals.hasGoodDepth THEN "strong_buy" ELSE "buy"
    ELSE IF /\ signals.strongAskImbalance /\ signals.resistanceDetected
            /\ signals.askWalls > 0
         THEN IF signals.hasGoodDepth THEN "strong_sell" ELSE "sell"
    ELSE IF signals.strongBidImbalance /\ signals.supportDetected THEN "buy"
    ELSE IF signals.strongAskImbalance /\ signals.resistanceDetected THEN "sell"
    ELSE IF signals.strongBidImbalance THEN "weak_buy"
    ELSE IF signals.strongAskImbalance THEN "weak_sell"
    ELSE IF signals.bidWalls > signals.askWalls * 2 THEN "weak_buy"
    ELSE IF signals.askWalls > signals.bidWalls * 2 THEN "weak_sell"
    ELSE "neutral"

\* The price pressure generateSignals derives from the volume changes.
PricePressure(metrics) ==
    IF metrics.hasMeaningfulVolume /\ metrics.isStable
    THEN IF metrics.netVolumeChange > 0 /\ metrics.bidAskImbalance > 120 THEN "up"
         ELSE IF metrics.netVolumeChange < 0 /\ metrics.bidAskImbalance < 80 THEN "down"
         ELSE IF metrics.bidAskImbalance > 150 THEN "up"
         ELSE IF metrics.bidAskImbalance < 50 THEN "down"
         ELSE "neutral"
    ELSE "neutral"

\* OrderBookAnalyzer.generateSignals, the fields the bot reads.
generateSignals(metrics) ==
    LET qualified == /\ metrics.hasValidOrderBook /\ metrics.hasMeaningfulVolume
                     /\ metrics.hasGoodDepth /\ metrics.isStable
        signals ==
            [strongBidImbalance |->
                 qualified /\ 10 * metrics.bidAskImbalance >= 100 * imbalanceThreshold,
             strongAskImbalance |->
                 qualified /\ metrics.bidAskImbalance * imbalanceThreshold <= 1000,
             supportDetected |-> metrics.supportLevels > 0,
             resistanceDetected |-> metrics.resistanceLevels > 0,
             bidWalls |-> metrics.bidWalls,
             askWalls |-> metrics.askWalls,
             hasMeaningfulVolume |-> metrics.hasMeaningfulVolume,
             hasGoodDepth |-> metrics.hasGoodDepth,
             isStable |-> metrics.isStable]
    IN  [strongBidImbalance |-> signals.strongBidImbalance,
         strongAskImbalance |-> signals.strongAskImbalance,
         supportDetected |-> signals.supportDetected,
         resistanceDetected |-> signals.resistanceDetected,
         pricePressure |-> PricePressure(metrics),
         inUptrend |-> isUptrend(metrics.closes),
         inDowntrend |-> isDowntrend(metrics.closes),
         compositeSignal |-> generateCompositeSignal(signals)]

ObSignals == {generateSignals(metrics) : metrics \in OrderBookReadings}

\* The candle signals the validators read.  An analysis that failed sets
\* error; the other signals are then not looked at.
VolumeEMAs == {10}
CandleSignals ==
    [error : {FALSE},
     emaBullishCross : BOOLEAN, emaBearishCross : BOOLEAN,
     buyingPressure : BOOLEAN, sellingPressure : BOOLEAN,
     volumeSpike : BOOLEAN, volumeEMA : VolumeEMAs]
    \cup
    [error : {TRUE},
     emaBullishCross : {FALSE}, emaBearishCross : {FALSE},
     buyingPressure : BOOLEAN, sellingPressure : BOOLEAN,
     volumeSpike : BOOLEAN, volumeEMA : VolumeEMAs]

\* The candle signals only calculateSignalScore reads.
EmaValues == {<<3, 2, 1>>, <<1, 2, 3>>, <<2, 2, 1>>}
ScoreCandleSignals ==
    {[emaFast |-> ema[1], emaMedium |-> ema[2], emaSlow |-> ema[3],
      nearLowerBand |-> bands[1], nearUpperBand |-> bands[2],
      isOverbought |-> bands[3],
      trendConfirmed |-> confirmed[1], downtrendConfirmed |-> confirmed[2]] :
        ema \in EmaValues,
        bands \in BOOLEAN \X BOOLEAN \X BOOLEAN,
        confirmed \in BOOLEAN \X BOOLEAN}

\* The volume of the last candle: below half of volumeEMA, half of it,
\* volumeAverageMultiplier times it, and above that.
LastVolumes == {4, 5, 13, 14}

\* The scores calculateSignalScore gives for these signals, over the candle
\* signals that only it reads.
SignalScores(candleSignals, obSignals, lastVolume) ==
    {calculateSignalScore(candleSignals @@ others, obSignals, lastVolume) :
        others \in ScoreCandleSignals}

NotDecided == "none"
NoSignals == "none"

-----------------------------------------------------------------------------
(* The order book as objects.  A book is an object holding two arrays, and *)
(* each level of an array is itself a two-element array; a reference is an *)
(* index into the heap.  The same handlers as above, with every allocation *)
(* (object literal, map, filter, slice, spread) and every mutation in      *)
(* place (property assignment, push, sort) made explicit.                  *)

MaxBooks == 7

NullRef == 0

EmptyHeap == [books |-> <<>>, arrays |-> <<>>, levels |-> <<>>]

\* The levels an array holds, as values.
LevelsOf(h, array) ==
    [i \in 1..Len(h.arrays[array]) |-> h.levels[h.arrays[array][i]]]

\* The value of a book object.
BookValue(h, ref) ==
    [bids |-> LevelsOf(h, h.books[ref].bids),
     asks |-> LevelsOf(h, h.books[ref].asks),
     lastUpdateId |-> h.books[ref].lastUpdateId,
     timestamp |-> h.books[ref].timestamp]

\* levels.map(l => [...l]), levels.map(l => [parseFloat(l[0]), parseFloat(l[1])]):
\* a new array of new level arrays.  Its reference is Len(h.arrays) + 1.
NewArrayOf(h, values) ==
    [h EXCEPT !.levels = @ \o values,
              !.arrays = Append(@, [i \in 1..Len(values) |-> Len(h.levels) + i])]

\* { bids: ..., asks: ..., lastUpdateId, timestamp }: a new book object with
\* its two new arrays.  Its reference is Len(h.books) + 1.
NewBook(h, bids, asks, lastUpdateId, timestamp) ==
    LET withBids == NewArrayOf(h, bids)
        withAsks == NewArrayOf(withBids, asks)
    IN  [heap |-> [withAsks EXCEPT !.books =
                      Append(@, [bids |-> Len(withBids.arrays),
                                 asks |-> Len(withAsks.arrays),
                                 lastUpdateId |-> lastUpdateId,
                                 timestamp |-> timestamp])],
         ref |-> Len(h.books) + 1]

\* deepCopyOrderBook returning the book it was given: no copy at all.
SameObject(h, ref) == [heap |-> h, ref |-> ref]

\* deepCopyOrderBook
deepCopyOrderBookOnHeap(h, ref) ==
    IF ref = NullRef THEN [heap |-> h, ref |-> NullRef]
    ELSE NewBook(h, LevelsOf(h, h.books[ref].bids), LevelsOf(h, h.books[ref].asks),
                 h.books[ref].lastUpdateId, h.books[ref].timestamp)

\* book[side] = items, items a new array (the result of filter or slice).
SetSide(h, ref, side, items) ==
    [h EXCEPT !.arrays = Append(@, items),
              !.books[ref][side] = Len(h.arrays) + 1]

\* One entry of data.b / data.a on the book object `ref`: filter makes a new
\* array, push extends that array in place with a new level.
ApplyChangeOnHeap(h, ref, side, change) ==
    LET numPrice == parseFloat(change[1])
        numQty == parseFloat(change[2])
        rest == SelectSeq(h.arrays[h.books[ref][side]],
                          LAMBDA level : h.levels[level][1] # numPrice)
        filtered == SetSide(h, ref, side, rest)
    IN  IF KeepsLevel(numQty)
        THEN [filtered EXCEPT
                 !.levels = Append(@, <<numPrice, numQty>>),
                 !.arrays[Len(h.arrays) + 1] = Append(@, Len(h.levels) + 1)]
        ELSE filtered

RECURSIVE ApplyChangesOnHeap(_, _, _, _)
ApplyChangesOnHeap(h, ref, side, changes) ==
    IF changes = <<>> THEN h
    ELSE ApplyChangesOnHeap(ApplyChangeOnHeap(h, ref, side, Head(changes)),
                            ref, side, Tail(changes))

\* cleanupOrderBook on the book object `ref`.
cleanupOrderBookOnHeap(h, ref) ==
    LET bidRefs == h.arrays[h.books[ref].bids]
        askRefs == h.arrays[h.books[ref].asks]
    IN  IF bidRefs = <<>> \/ askRefs = <<>> THEN h
        ELSE LET bestBid == h.levels[bidRefs[1]][1]
                 bestAsk == h.levels[askRefs[1]][1]
                 bids == SelectSeq(bidRefs, LAMBDA bid :
                            AboveMinPrice(h.levels[bid][1], bestBid, bestAsk))
                 asks == SelectSeq(askRefs, LAMBDA ask :
                            BelowMaxPrice(h.levels[ask][1], bestBid, bestAsk))
                 filtered == SetSide(SetSide(h, ref, "bids", bids), ref, "asks", asks)
                 slicedBids == IF Len(bids) > maxLevels
                               THEN SetSide(filtered, ref, "bids", SubSeq(bids, 1, maxLevels))
                               ELSE filtered
             IN  IF Len(asks) > maxLevels
                 THEN SetSide(slicedBids, ref, "asks", SubSeq(asks, 1, maxLevels))
                 ELSE slicedBids

\* array.sort(...) in place, on the prices of the levels it refers to.
SortInPlace(h, array, descending) ==
    LET keyed == [i \in 1..Len(h.arrays[array]) |->
                     <<h.levels[h.arrays[array][i]][1], h.arrays[array][i]>>]
        sorted == Sort(keyed, descending)
    IN  [h EXCEPT !.arrays[array] = [i \in 1..Len(sorted) |-> sorted[i][2]]]

\* The tail of processIncrementalDepthUpdate on objects: the copy is changed
\* in place and returned.
UpdatedCopyOnHeap(h, data, currentOrderBook, time) ==
    LET orderBookCopy == deepCopyOrderBookOnHeap(h, currentOrderBook)
        copy == orderBookCopy.ref
        changed == ApplyChangesOnHeap(
                       ApplyChangesOnHeap(orderBookCopy.heap, copy, "bids", data.b),
                       copy, "asks", data.a)
        cleaned == cleanupOrderBookOnHeap(changed, copy)
        sortedBids == SortInPlace(cleaned, cleaned.books[copy].bids, TRUE)
        sorted == SortInPlace(sortedBids, sortedBids.books[copy].asks, FALSE)
    IN  [heap |-> [sorted EXCEPT !.books[copy].lastUpdateId = data.u,
                                 !.books[copy].timestamp = time],
         ref |-> copy]

\* processIncrementalDepthUpdate on objects: the book it was given for a
\* stale event, null for a gap, the changed copy otherwise.
processIncrementalDepthUpdateOnHeap(h, data, currentOrderBook, time) ==
    IF currentOrderBook = NullRef
    THEN NewBook(h, ParseLevels(data.b), ParseLevels(data.a), data.u, time)
    ELSE IF IsStale(data, h.books[currentOrderBook])
         THEN [heap |-> h, ref |-> currentOrderBook]
    ELSE IF IsGap(data, h.books[currentOrderBook])
         THEN [heap |-> h, ref |-> NullRef]
    ELSE UpdatedCopyOnHeap(h, data, currentOrderBook, time)

\* initializeMarketData: the two book objects of a pair.
InitialHeap ==
    NewBook(NewBook(EmptyHeap, <<>>, <<>>, NoUpdateId, 0).heap,
            <<>>, <<>>, NoUpdateId, 0).heap

InitHeap ==
    /\ heap = InitialHeap
    /\ orderBookRef = 1
    /\ previousOrderBookRef = 2
    /\ held = [ref |-> NullRef, value |-> null]


-----------------------------------------------------------------------------
(* BinancePredictiveBot: one pair's market data *)

\* initializeMarketData
InitialOrderBook ==
    [bids |-> <<>>, asks |-> <<>>, lastUpdateId |-> NoUpdateId, timestamp |-> 0]
InitialPreviousOrderBook ==
    [bids |-> <<>>, asks |-> <<>>, lastUpdateId |-> NoUpdateId, timestamp |-> 0]

InitPair ==
    /\ orderBook = InitialOrderBook
    /\ previousOrderBook = InitialPreviousOrderBook
    /\ needsReinitialization = FALSE
    /\ bufferingUpdates = TRUE
    /\ reinitTimeout = FALSE
    /\ syncPc = "fetching"
    /\ retries = SYNC_RETRIES
    /\ reinitPc = "idle"
    /\ analyzePc = "idle"
    /\ now = 0
    /\ last = [op |-> "init", outcome |-> "none", data |-> NoEvent, snapshot |-> null]
    /\ syncFailures = 0
    /\ preSnapshotEvents = <<>>
    /\ gapPending = FALSE

\* No analysis has run.
InitDecision ==
    /\ candleAnalysis = NoSignals
    /\ obAnalysis = NoSignals
    /\ candleVolume = 0
    /\ signalScore = NoSignals
    /\ compositeSignal = NotDecided

\* No score has been compared.
InitScore ==
    /\ scoreInputs = NoSignals
    /\ raisedSignal = NoSignals
    /\ scoreBefore = NoSignals
    /\ scoreAfter = NoSignals

\* The trading pairs followed.  config.tradingPairs has BTCUSDT; ETHUSDT is
\* the first of the pairs it lists commented out.
Symbols == {"BTCUSDT", "ETHUSDT"}

\* A time that is no time: Map.get's undefined, which `!lastSignal` takes as
\* no signal, as it would a time of 0.
NoTime == 0

\* constructor: lastSignalTimes = new Map().  No alert has been sent.
InitAlert ==
    /\ lastSignalTimes = [symbol \in Symbols |-> NoTime]
    /\ clock = 1
    /\ alerts = <<>>
    /\ lastAlert = [symbol |-> NoSignals, signal |-> NoSignals,
                    inCooldown |-> FALSE, before |-> NoTime, sent |-> FALSE]

\* initializeMarketData: candles: [].
InitKline ==
    /\ candles = <<>>
    /\ closed = <<>>
    /\ lastKline = [x |-> FALSE, candle |-> <<>>, before |-> <<>>,
                    closedBefore |-> <<>>]

\* constructor: isRunning = false.  runAnalysis has not been called.
InitLoop ==
    /\ isRunning = FALSE
    /\ loopPc = "not started"
    /\ analysis = [symbol \in Symbols |-> "idle"]
    /\ cyclesStarted = 0
    /\ cyclesFinished = 0
    /\ output = [outcomes |-> [symbol \in Symbols |-> "idle"], logged |-> {},
                 passed |-> FALSE, threw |-> FALSE]
    /\ shutdownAt = [started |-> -1, finished |-> -1]

\* Nothing has been followed on its own.
InitPriceVars ==
    /\ priceInputs = NoSignals
    /\ suggestedPrices = [signal |-> NotDecided, entry |-> 0, stopLoss |-> 0,
                          takeProfit |-> 0]

InitBookSignalVars ==
    /\ bookReading = NoSignals
    /\ bookSignals = [compositeSignal |-> NotDecided]

\* Boot sequences, and with them calls of runAnalysis, up to MaxBoots.
MaxBoots == 2

LoopIds == 1..MaxBoots

\* A call of runAnalysis that has not been made.
NotStarted == [pc |-> "not started", timer |-> 0]

\* No boot sequence has run.
InitBootVars ==
    /\ loops = [i \in LoopIds |-> NotStarted]
    /\ bootPc = "idle"
    /\ bootWait = 0
    /\ boots = 0

\* The place of each pair in Object.keys(this.config.tradingPairs).
Slots(tradingPairs) ==
    CHOOSE slot \in [tradingPairs -> 1..Cardinality(tradingPairs)] :
        \A a, b \in tradingPairs : a # b => slot[a] # slot[b]

\* `orderBook: {bids: [], asks: [], lastUpdateId: null, timestamp}` and
\* `previousOrderBook: {bids: [], asks: []}` of n pairs: 2n new objects.
RECURSIVE InitialBooks(_, _)
InitialBooks(h, n) ==
    IF n = 0 THEN h
    ELSE InitialBooks(NewBook(NewBook(h, <<>>, <<>>, NoUpdateId, 0).heap,
                              <<>>, <<>>, NoUpdateId, 0).heap, n - 1)

\* The entry of marketData that holds the objects of the given slot.
SymbolData(slot) ==
    [candles |-> slot,
     orderBook |-> 2 * slot - 1,
     previousOrderBook |-> 2 * slot,
     needsReinitialization |-> FALSE,
     bufferingUpdates |-> TRUE]

\* initializeMarketData with one entry object for every pair: the pairs
\* share their candles and their books.
initializeMarketDataShared(tradingPairs) ==
    [data |-> [symbol \in tradingPairs |-> SymbolData(1)],
     heap |-> [objects |-> InitialBooks(EmptyHeap, Cardinality(tradingPairs)),
               candles |-> [slot \in 1..Cardinality(tradingPairs) |-> <<>>]]]

\* initializeMarketData, lines 1155-1174: the literals of the callback are
\* evaluated once for every pair.
initializeMarketData(tradingPairs) ==
    [data |-> [symbol \in tradingPairs |-> SymbolData(Slots(tradingPairs)[symbol])],
     heap |-> [objects |-> InitialBooks(EmptyHeap, Cardinality(tradingPairs)),
               candles |-> [slot \in 1..Cardinality(tradingPairs) |-> <<>>]]]

\* marketData as the constructor leaves it.
InitMarketVars ==
    /\ marketData = initializeMarketData(Symbols).data
    /\ marketHeap = initializeMarketData(Symbols).heap
    /\ pairOp = [symbol |-> "none", op |-> "init"]
    /\ pairOps = 0

\* No call of a depth-update function is followed.
NoDepthCall ==
    [fn |-> "none", data |-> Event(<<1, 1>>, <<<<>>, <<>>>>),
     currentOrderBook |-> null, returned |-> null]

InitDepthCall ==
    /\ depthCall = NoDepthCall

\* The streams of the pair followed: `${pair}_kline` and `${pair}_depth`.
SocketKeys == {"BTCUSDT_kline", "BTCUSDT_depth"}

\* WebSocket objects and reconnection timers that are followed.
MaxSockets == 4
MaxTimers == 2
WsIds == 1..MaxSockets
TimerIds == 1..MaxTimers

\* No WebSocket object / no timer under a key (undefined).
NoSocket == 0
NoTimer == NoSocket

\* A WebSocket that has not been constructed, a timer that has not been set.
NoWs ==
    [key |-> "none", state |-> "none", closeListener |-> FALSE, closedBy |-> "none",
     awaited |-> FALSE]
NoTimeout == [key |-> "none", pending |-> FALSE]

\* The constructor of ExchangeManager: sockets = {}, no subscriber,
\* reconnectTimeouts = new Map(), isShuttingDown = false.
InitSockets ==
    /\ isShuttingDown = FALSE
    /\ sockets = [key \in SocketKeys |-> NoSocket]
    /\ ws = [id \in WsIds |-> NoWs]
    /\ reconnectTimeouts = [key \in SocketKeys |-> NoTimer]
    /\ timers = [t \in TimerIds |-> NoTimeout]
    /\ subscribers = [key \in SocketKeys |-> FALSE]
    /\ exchangeBoot = "none"
    /\ socketOp = [op |-> "constructor", id |-> 0, forwarded |-> FALSE, repeat |-> FALSE]

\* `constructor(testMode = false)`: a bot connected to the exchange.
InitExtraVars ==
    /\ botTestMode = FALSE
    /\ InitDepthCall
    /\ InitSockets

InitRest ==
    /\ InitPriceVars /\ InitBookSignalVars /\ InitBootVars /\ InitMarketVars
    /\ InitExtraVars

InitBot == InitScore /\ InitAlert /\ InitKline /\ InitLoop /\ InitRest

Init == InitPair /\ InitDecision /\ InitHeap /\ InitBot

\* processDepthData while bufferingUpdates: lines 1320-1326.
ProcessDepthDataBuffering(data) ==
    /\ bufferingUpdates
    /\ now < MaxTime
    /\ Len(preSnapshotEvents) < MaxPreSnapshotEvents
    /\ LET updatedOrderBook == applyDepthUpdate(data, orderBook, now + 1)
       IN  orderBook' = IF updatedOrderBook # null THEN updatedOrderBook ELSE orderBook
    /\ now' = now + 1
    /\ last' = [op |-> "depth", outcome |-> "buffering", data |-> data, snapshot |-> null]
    /\ preSnapshotEvents' = Append(preSnapshotEvents, data)
    /\ UNCHANGED <<previousOrderBook, needsReinitialization, bufferingUpdates,
                   reinitTimeout, syncPc, retries, reinitPc, analyzePc,
                   syncFailures, gapPending>>
    /\ UNCHANGED decisionVars
    /\ UNCHANGED heapVars
    /\ UNCHANGED botVars

\* processDepthData after the buffering window: lines 1332-1352.
ProcessDepthDataLive(data) ==
    /\ ~bufferingUpdates
    /\ LET updatedOrderBook == processIncrementalDepthUpdate(data, orderBook, now + 1)
           applied == updatedOrderBook # null /\ ~IsStale(data, orderBook)
       IN  /\ applied => now < MaxTime
           /\ previousOrderBook' = deepCopyOrderBook(orderBook)
           /\ IF updatedOrderBook = null
              THEN /\ needsReinitialization' = TRUE
                   /\ reinitTimeout' = (reinitTimeout \/ ~needsReinitialization)
                   /\ gapPending' = TRUE
                   /\ UNCHANGED orderBook
              ELSE /\ orderBook' = updatedOrderBook
                   /\ needsReinitialization' = FALSE
                   /\ UNCHANGED <<reinitTimeout, gapPending>>
           /\ now' = IF applied THEN now + 1 ELSE now
           /\ last' = [op |-> "depth",
                       outcome |-> IF updatedOrderBook = null THEN "gap"
                                   ELSE IF applied THEN "applied" ELSE "stale",
                       data |-> data, snapshot |-> null]
    /\ preSnapshotEvents' = <<>>
    /\ UNCHANGED <<bufferingUpdates, syncPc, retries, reinitPc, analyzePc,
                   syncFailures>>
    /\ UNCHANGED decisionVars
    /\ UNCHANGED botVars

\* A snapshot fetch that fails.  getOrderBookSnapshot catches whatever the
\* request or the parsing throws (lines 642-645) and returns null, so no
\* caller ever sees an exception from it: the catch blocks of
\* synchronizeOrderBookSnapshots (1245-1252) and of reinitializeOrderBook
\* (1405-1408) are never entered.
FetchFails == null

\* synchronizeOrderBookSnapshots, one turn of `while (retries > 0)` whose
\* fetch yields a snapshot: install it, stop buffering, break.
SyncInstall(response) ==
    /\ syncPc = "fetching"
    /\ retries > 0
    /\ now < MaxTime
    /\ orderBook' = getOrderBookSnapshot(response, now + 1)
    /\ bufferingUpdates' = FALSE
    /\ syncPc' = "done"
    /\ now' = now + 1
    /\ last' = [op |-> "sync", outcome |-> "installed", data |-> NoEvent,
                snapshot |-> getOrderBookSnapshot(response, now + 1)]
    /\ gapPending' = FALSE
    /\ UNCHANGED <<previousOrderBook, needsReinitialization, reinitTimeout,
                   retries, reinitPc, analyzePc, syncFailures,
                   preSnapshotEvents>>
    /\ UNCHANGED decisionVars
    /\ UNCHANGED botVars

\* The retries left after a turn of the loop whose fetch yielded null:
\* `if (snapshot)` is false, nothing is thrown, the catch block with
\* `retries--` and the delay is skipped.
RetriesAfterNull(r) == r

\* One turn of the loop whose fetch fails.
SyncFetchFails ==
    /\ syncPc = "fetching"
    /\ retries > 0
    /\ syncFailures < MaxSyncFailures
    /\ FetchFails = null
    /\ retries' = RetriesAfterNull(retries)
    /\ syncFailures' = syncFailures + 1
    /\ last' = [op |-> "sync", outcome |-> "failed", data |-> NoEvent, snapshot |-> null]
    /\ UNCHANGED <<orderBook, previousOrderBook, needsReinitialization,
                   bufferingUpdates, reinitTimeout, syncPc, reinitPc,
                   analyzePc, now, preSnapshotEvents, gapPending>>
    /\ UNCHANGED decisionVars
    /\ UNCHANGED heapVars
    /\ UNCHANGED botVars

\* The timer set by processDepthData fires: reinitializeOrderBook up to its
\* await (line 1395 returns when the flag is already cleared).
ReinitTimerFires ==
    /\ reinitTimeout
    /\ reinitPc = "idle"
    /\ reinitTimeout' = FALSE
    /\ reinitPc' = IF needsReinitialization THEN "fetching" ELSE "idle"
    /\ last' = [op |-> "reinit", outcome |-> "timer", data |-> NoEvent, snapshot |-> null]
    /\ preSnapshotEvents' = <<>>
    /\ UNCHANGED <<orderBook, previousOrderBook, needsReinitialization,
                   bufferingUpdates, syncPc, retries, analyzePc, now,
                   syncFailures, gapPending>>
    /\ UNCHANGED decisionVars
    /\ UNCHANGED heapVars
    /\ UNCHANGED botVars

\* reinitializeOrderBook after the await, with a snapshot: lines 1400-1404.
ReinitInstall(response) ==
    /\ reinitPc = "fetching"
    /\ now < MaxTime
    /\ orderBook' = getOrderBookSnapshot(response, now + 1)
    /\ needsReinitialization' = FALSE
    /\ reinitPc' = "idle"
    /\ now' = now + 1
    /\ last' = [op |-> "reinit", outcome |-> "installed", data |-> NoEvent, snapshot |-> null]
    /\ gapPending' = FALSE
    /\ preSnapshotEvents' = <<>>
    /\ UNCHANGED <<previousOrderBook, bufferingUpdates, reinitTimeout, syncPc,
                   retries, analyzePc, syncFailures>>
    /\ UNCHANGED decisionVars
    /\ UNCHANGED heapVars
    /\ UNCHANGED botVars

\* reinitializeOrderBook after the await, without one: nothing is done and
\* nothing is scheduled.
ReinitFetchFails ==
    /\ reinitPc = "fetching"
    /\ FetchFails = null
    /\ reinitPc' = "idle"
    /\ last' = [op |-> "reinit", outcome |-> "failed", data |-> NoEvent, snapshot |-> null]
    /\ preSnapshotEvents' = <<>>
    /\ UNCHANGED <<orderBook, previousOrderBook, needsReinitialization,
                   bufferingUpdates, reinitTimeout, syncPc, retries, analyzePc,
                   now, syncFailures, gapPending>>
    /\ UNCHANGED decisionVars
    /\ UNCHANGED heapVars
    /\ UNCHANGED botVars

\* this.testMode of a bot that is connected to the exchange.
testMode == FALSE

\* analyzeMarket, line 1415: is a snapshot fetched before the analysis?
NeedsSnapshotForAnalysis ==
    ~testMode /\ (needsReinitialization \/ Len(orderBook.bids) = 0)

\* analyzeMarket from line 1419 on: with fewer candles than
\* minCandlesRequired it returns null, else performMarketAnalysis runs
\* (signal extraction, scoring, decision, alert).  The history records
\* whether it ran on a book that a gap had marked and no snapshot replaced.
Analyzed(enoughCandles) ==
    [op |-> "analyze",
     outcome |-> IF ~enoughCandles THEN "skipped"
                 ELSE IF gapPending' THEN "performed on a gap" ELSE "performed",
     data |-> NoEvent, snapshot |-> null]

\* analyzeMarket when no snapshot is needed: one synchronous run.
AnalyzeDirectly ==
    /\ syncPc = "done"
    /\ analyzePc = "idle"
    /\ ~NeedsSnapshotForAnalysis
    /\ UNCHANGED gapPending
    /\ \E enoughCandles \in BOOLEAN : last' = Analyzed(enoughCandles)
    /\ preSnapshotEvents' = <<>>
    /\ UNCHANGED <<orderBook, previousOrderBook, needsReinitialization,
                   bufferingUpdates, reinitTimeout, syncPc, retries, reinitPc,
                   analyzePc, now, syncFailures>>
    /\ UNCHANGED decisionVars
    /\ UNCHANGED heapVars
    /\ UNCHANGED botVars

\* analyzeMarket up to the await of reinitializeOrderBookForAnalysis.
AnalyzeFetches ==
    /\ syncPc = "done"
    /\ analyzePc = "idle"
    /\ NeedsSnapshotForAnalysis
    /\ analyzePc' = "fetching"
    /\ last' = [op |-> "analyze", outcome |-> "fetching", data |-> NoEvent, snapshot |-> null]
    /\ preSnapshotEvents' = <<>>
    /\ UNCHANGED <<orderBook, previousOrderBook, needsReinitialization,
                   bufferingUpdates, reinitTimeout, syncPc, retries, reinitPc,
                   now, syncFailures, gapPending>>
    /\ UNCHANGED decisionVars
    /\ UNCHANGED heapVars
    /\ UNCHANGED botVars

\* reinitializeOrderBookForAnalysis with a snapshot (1434-1437), and the
\* rest of analyzeMarket.
AnalyzeAfterInstall(response) ==
    /\ analyzePc = "fetching"
    /\ now < MaxTime
    /\ orderBook' = getOrderBookSnapshot(response, now + 1)
    /\ needsReinitialization' = FALSE
    /\ gapPending' = FALSE
    /\ now' = now + 1
    /\ \E enoughCandles \in BOOLEAN : last' = Analyzed(enoughCandles)
    /\ analyzePc' = "idle"
    /\ preSnapshotEvents' = <<>>
    /\ UNCHANGED <<previousOrderBook, bufferingUpdates, reinitTimeout, syncPc,
                   retries, reinitPc, syncFailures>>
    /\ UNCHANGED decisionVars
    /\ UNCHANGED heapVars
    /\ UNCHANGED botVars

\* reinitializeOrderBookForAnalysis without one (1438-1440: a warning), and
\* the rest of analyzeMarket, which goes on regardless.
AnalyzeAfterFetchFails ==
    /\ analyzePc = "fetching"
    /\ FetchFails = null
    /\ UNCHANGED gapPending
    /\ \E enoughCandles \in BOOLEAN : last' = Analyzed(enoughCandles)
    /\ analyzePc' = "idle"
    /\ preSnapshotEvents' = <<>>
    /\ UNCHANGED <<orderBook, previousOrderBook, needsReinitialization,
                   bufferingUpdates, reinitTimeout, syncPc, retries, reinitPc,
                   now, syncFailures>>
    /\ UNCHANGED decisionVars
    /\ UNCHANGED heapVars
    /\ UNCHANGED botVars

\* The life of a pair: the depth subscription's callback, the initial
\* synchronisation, the reinitialisation timer and the analysis cycles.
Next ==
    \/ \E data \in FewDepthEvents(orderBook.lastUpdateId) : ProcessDepthDataBuffering(data)
    \/ \E data \in FewDepthEvents(orderBook.lastUpdateId) :
           ProcessDepthDataLive(data) /\ UNCHANGED heapVars
    \/ \E response \in FewSnapshotResponses :
           SyncInstall(response) /\ UNCHANGED heapVars
    \/ SyncFetchFails
    \/ ReinitTimerFires
    \/ \E response \in FewSnapshotResponses : ReinitInstall(response)
    \/ ReinitFetchFails
    \/ AnalyzeDirectly
    \/ AnalyzeFetches
    \/ \E response \in FewSnapshotResponses : AnalyzeAfterInstall(response)
    \/ AnalyzeAfterFetchFails

Spec == Init /\ [][Next]_vars

\* The book alone, over every snapshot and every change of the alphabet:
\* the initial snapshot and the depth events that follow it.
NextBook ==
    \/ \E response \in SnapshotResponses :
           SyncInstall(response) /\ UNCHANGED heapVars
    \/ \E data \in DepthEvents(orderBook.lastUpdateId) :
           ProcessDepthDataLive(data) /\ UNCHANGED heapVars

SpecBook == Init /\ [][NextBook]_vars

\* performMarketAnalysis, lines 1457-1458: the score of the signals and the
\* decision taken on it.
PerformMarketAnalysis ==
    /\ compositeSignal = NotDecided
    /\ signalScore' \in SignalScores(candleAnalysis, obAnalysis, candleVolume)
    /\ compositeSignal' =
           determineCompositeSignal(candleAnalysis, obAnalysis, candleVolume, signalScore')
    /\ UNCHANGED <<candleAnalysis, obAnalysis, candleVolume>>
    /\ UNCHANGED pairVars
    /\ UNCHANGED heapVars
    /\ UNCHANGED botVars

\* One analysis cycle on every combination of the analysers' signals.
InitSignal ==
    /\ InitPair
    /\ candleAnalysis \in CandleSignals
    /\ obAnalysis \in ObSignals
    /\ candleVolume \in LastVolumes
    /\ signalScore = NoSignals
    /\ compositeSignal = NotDecided
    /\ InitHeap
    /\ InitBot

NextSignal == PerformMarketAnalysis

SpecSignal == InitSignal /\ [][NextSignal]_vars

\* The snapshot object getOrderBookSnapshot builds, installed as the book.
InstallOnHeap(response) ==
    /\ LET snapshot == NewBook(heap, ParseLevels(response.bids),
                               ParseLevels(response.asks),
                               response.lastUpdateId, now + 1)
       IN  /\ heap' = snapshot.heap
           /\ orderBookRef' = snapshot.ref
    /\ UNCHANGED <<previousOrderBookRef, held>>

\* processDepthData after the buffering window, lines 1332-1352, on objects.
ProcessDepthDataOnHeap(data) ==
    /\ Len(heap.books) + 2 <= MaxBooks
    /\ LET copied == deepCopyOrderBookOnHeap(heap, orderBookRef)
           updated == processIncrementalDepthUpdateOnHeap(copied.heap, data,
                                                          orderBookRef, now + 1)
       IN  /\ heap' = updated.heap
           /\ previousOrderBookRef' = copied.ref
           /\ orderBookRef' = IF updated.ref = NullRef THEN orderBookRef
                              ELSE updated.ref
    /\ held' = [ref |-> orderBookRef, value |-> BookValue(heap, orderBookRef)]

\* The book alone, as objects, in step with the book as values.
NextHeap ==
    \/ \E response \in SnapshotResponses :
           SyncInstall(response) /\ InstallOnHeap(response)
    \/ \E data \in FewDepthEvents(orderBook.lastUpdateId) :
           ProcessDepthDataLive(data) /\ ProcessDepthDataOnHeap(data)

SpecHeap == Init /\ [][NextHeap]_vars

-----------------------------------------------------------------------------
(* Properties of the order book *)

\* The last step was processDepthData, past the buffering window.
AfterDepthEvent == last.op = "depth" /\ last.outcome # "buffering"

\* ... and its event was applied: neither stale nor a gap.
AfterAppliedDiff == last.op = "depth" /\ last.outcome = "applied"

StrictlyDescending(levels) ==
    \A i \in 1..Len(levels) : \A j \in 1..Len(levels) : i < j => levels[i][1] > levels[j][1]

StrictlyAscending(levels) ==
    \A i \in 1..Len(levels) : \A j \in 1..Len(levels) : i < j => levels[i][1] < levels[j][1]

NoDuplicatePrice(levels) ==
    \A i \in 1..Len(levels) : \A j \in 1..Len(levels) : i # j => levels[i][1] # levels[j][1]

Ordered(book) ==
    /\ NoDuplicatePrice(book.bids) /\ NoDuplicatePrice(book.asks)
    /\ StrictlyDescending(book.bids)
    /\ StrictlyAscending(book.asks)

Bounded(book) == Len(book.bids) <= maxLevels /\ Len(book.asks) <= maxLevels

\* C1 (as claimed): after every diff applied by
\* processIncrementalDepthUpdate the book has no duplicate price on either
\* side, bids strictly descending, asks strictly ascending, and at most
\* maxLevels levels on each side.
C1_LevelInvariant == AfterAppliedDiff => Ordered(orderBook) /\ Bounded(orderBook)

\* C2: a depth event with u <= L, L the lastUpdateId of the book, leaves
\* bids, asks, lastUpdateId and timestamp of the book as they were.
C2_StaleDiffIgnored ==
    (/\ AfterDepthEvent
     /\ previousOrderBook.lastUpdateId # NoUpdateId
     /\ last.data.u <= previousOrderBook.lastUpdateId)
    => orderBook = previousOrderBook

\* A stale event that would have changed the book has been processed.
C2_Witness ==
    /\ AfterDepthEvent
    /\ last.data.u = previousOrderBook.lastUpdateId
    /\ last.data.b = <<<<"100.00", "2.000">>>>
    /\ <<100, 5>> \in {orderBook.bids[i] : i \in 1..Len(orderBook.bids)}

\* C3: a depth event with U > L + 100 is answered with the gap result and
\* the stored book keeps its bids, asks and lastUpdateId.
C3_GapLeavesBook ==
    (/\ AfterDepthEvent
     /\ previousOrderBook.lastUpdateId # NoUpdateId
     /\ last.data.U > previousOrderBook.lastUpdateId + 100)
    => /\ last.outcome = "gap"
       /\ needsReinitialization
       /\ orderBook.bids = previousOrderBook.bids
       /\ orderBook.asks = previousOrderBook.asks
       /\ orderBook.lastUpdateId = previousOrderBook.lastUpdateId

\* A gap has been detected on a book with levels: lastUpdateId 10, U 111.
C3_Witness ==
    /\ AfterDepthEvent
    /\ last.outcome = "gap"
    /\ orderBook.lastUpdateId = 10 /\ last.data.U = 111
    /\ orderBook.bids # <<>>

\* The levels of a side after the changes of an event, by the rule of the
\* claim: a level whose price the event does not name stays; for a price
\* it names, the last change of that price counts, and puts a level there
\* iff its quantity is positive.
LastChange(changes, price) ==
    LET at == {i \in 1..Len(changes) : parseFloat(changes[i][1]) = price}
    IN  changes[CHOOSE i \in at : \A j \in at : j <= i]

Named(changes) == {parseFloat(changes[i][1]) : i \in 1..Len(changes)}

Merged(levels, changes) ==
    {levels[i] : i \in {j \in 1..Len(levels) : levels[j][1] \notin Named(changes)}}
    \cup {<<p, parseFloat(LastChange(changes, p)[2])>> :
             p \in {q \in Named(changes) : parseFloat(LastChange(changes, q)[2]) > 0}}

LevelSet(levels) == {levels[i] : i \in 1..Len(levels)}

\* A level of `side` may be pruned from the merged sides: there are more
\* than maxLevels of them, or it lies outside the band around the mean of
\* some bid and some ask.
MayBePruned(level, side, mergedBids, mergedAsks) ==
    /\ mergedBids # {} /\ mergedAsks # {}
    /\ \/ Cardinality(side) > maxLevels
       \/ \E bid \in mergedBids, ask \in mergedAsks :
             \/ ~AboveMinPrice(level[1], bid[1], ask[1])
             \/ ~BelowMaxPrice(level[1], bid[1], ask[1])

\* C7: an applied diff removes the level at each price it names and puts
\* the new one there iff its quantity is positive; lastUpdateId becomes u;
\* any other level is missing only if pruning could take it.  From
\* {bids [[100,5]], asks [[101,5]], lastUpdateId 10}, the diff
\* {U 11, u 11, b [[100,0]], a []} gives no bids, the same asks and
\* lastUpdateId 11.
C7_DiffApplied ==
    AfterAppliedDiff =>
        LET mergedBids == Merged(previousOrderBook.bids, last.data.b)
            mergedAsks == Merged(previousOrderBook.asks, last.data.a)
        IN  /\ orderBook.lastUpdateId = last.data.u
            /\ LevelSet(orderBook.bids) \subseteq mergedBids
            /\ LevelSet(orderBook.asks) \subseteq mergedAsks
            /\ \A level \in mergedBids \ LevelSet(orderBook.bids) :
                   MayBePruned(level, mergedBids, mergedBids, mergedAsks)
            /\ \A level \in mergedAsks \ LevelSet(orderBook.asks) :
                   MayBePruned(level, mergedAsks, mergedBids, mergedAsks)
            /\ (/\ previousOrderBook.bids = <<<<100, 5>>>>
                /\ previousOrderBook.asks = <<<<101, 5>>>>
                /\ previousOrderBook.lastUpdateId = 10
                /\ last.data = [U |-> 11, u |-> 11, b |-> <<<<"100.00", "0.000">>>>, a |-> <<>>])
               => /\ orderBook.bids = <<>>
                  /\ orderBook.asks = <<<<101, 5>>>>
                  /\ orderBook.lastUpdateId = 11

\* The example of the claim has been played.
C7_Witness ==
    /\ AfterAppliedDiff
    /\ previousOrderBook.bids = <<<<100, 5>>>>
    /\ previousOrderBook.asks = <<<<101, 5>>>>
    /\ previousOrderBook.lastUpdateId = 10
    /\ last.data = [U |-> 11, u |-> 11, b |-> <<<<"100.00", "0.000">>>>, a |-> <<>>]
    /\ orderBook.bids = <<>>

\* Every level of the book lies within cleanupRange of the mid-price, the
\* mean of the best (highest) bid and the best (lowest) ask.
WithinBand(book) ==
    \A bestBid \in LevelSet(book.bids), bestAsk \in LevelSet(book.asks) :
        (/\ \A bid \in LevelSet(book.bids) : bid[1] <= bestBid[1]
         /\ \A ask \in LevelSet(book.asks) : ask[1] >= bestAsk[1])
        => \A level \in LevelSet(book.bids) \cup LevelSet(book.asks) :
              /\ AboveMinPrice(level[1], bestBid[1], bestAsk[1])
              /\ BelowMaxPrice(level[1], bestBid[1], bestAsk[1])

\* The last step put a new book in place.
AfterMutation == last.outcome \in {"applied", "installed", "buffering"}

\* C9 (as claimed): after every mutation of the book, a snapshot install as
\* well as an applied diff, each side has at most maxLevels levels and
\* every level lies within 10% of the mid-price.
C9_PrunedAfterMutation == AfterMutation => Bounded(orderBook) /\ WithinBand(orderBook)

-----------------------------------------------------------------------------
(* Properties of the life of a pair *)

\* The book that replaying events onto a book gives: each is applied by
\* processIncrementalDepthUpdate, a gap leaves the book.
RECURSIVE Replay(_, _)
Replay(book, events) ==
    IF events = <<>> THEN book
    ELSE LET updated == processIncrementalDepthUpdate(Head(events), book, now)
         IN  Replay(IF updated = null THEN book ELSE updated, Tail(events))

SameLevels(book, other) ==
    /\ book.bids = other.bids
    /\ book.asks = other.asks
    /\ book.lastUpdateId = other.lastUpdateId

\* C4 (as claimed): a depth event that arrives during the buffering window
\* is not applied to the book of before the snapshot, and when the
\* snapshot lands the book is the snapshot with those events replayed onto
\* it in their order of arrival.
C4_BufferedAndReplayed ==
    /\ bufferingUpdates => SameLevels(orderBook, InitialOrderBook)
    /\ (last.op = "sync" /\ last.outcome = "installed")
       => SameLevels(orderBook, Replay(last.snapshot, preSnapshotEvents))

\* C5 (as claimed): while a gap has the pair marked needsReinitialization
\* and no fresh snapshot has been installed, no analysis cycle performs the
\* market analysis (signal extraction, scoring, alerting), also when the
\* snapshot fetch that precedes the analysis fails.
C5_NoAnalysisOnGap ==
    ~(/\ last.op = "analyze"
      /\ last.outcome = "performed on a gap"
      /\ needsReinitialization)

\* C6 (as claimed): after SYNC_RETRIES failed fetches the initial
\* synchronisation has stopped retrying and the pair is marked
\* needsReinitialization.
C6_SyncGivesUp ==
    syncFailures >= SYNC_RETRIES => syncPc # "fetching" /\ needsReinitialization

-----------------------------------------------------------------------------
(* Properties of the decision *)

\* The analysis cycle has decided, on candle signals without an error.
Decided == compositeSignal # NotDecided /\ ~candleAnalysis.error

\* The long score reaches REQUIRED_SCORE and no veto rejects the long signal.
LongPasses ==
    validateLongSignal(signalScore, detectDivergence(candleAnalysis, obAnalysis),
                       candleAnalysis, obAnalysis, candleVolume) = "long"

\* The long score reaches REQUIRED_SCORE and a veto rejects the long signal.
LongVetoed == signalScore.long >= REQUIRED_SCORE /\ ~LongPasses

\* The short score reaches REQUIRED_SCORE and no veto rejects the short signal.
ShortPasses ==
    validateShortSignal(signalScore, detectDivergence(candleAnalysis, obAnalysis),
                        candleAnalysis, obAnalysis, candleVolume) = "short"

\* C10, as the code has it: determineCompositeSignal evaluates the long side
\* first.  A long score at or above REQUIRED_SCORE settles the cycle: long if
\* no veto fired, neutral if one did, and the short side is not evaluated.
\* Only a long score below REQUIRED_SCORE lets the short side be evaluated:
\* short if the short validation passes, neutral otherwise.
C10_LongSettlesOrShort ==
    Decided =>
        compositeSignal =
            IF signalScore.long >= REQUIRED_SCORE
            THEN IF LongPasses THEN "long" ELSE "neutral"
            ELSE IF ShortPasses THEN "short" ELSE "neutral"

\* C10's case: a long veto fired on a cycle whose short validation passes,
\* and the cycle is neutral.
C10_Witness ==
    Decided /\ LongVetoed /\ ShortPasses /\ compositeSignal = "neutral"

\* C10 as stated: whenever the long side does not yield long (score below
\* the threshold, or a veto fired), the short side is evaluated and short is
\* returned if the short validation passes; neutral only if neither side
\* yields a signal.
C10_ShortAfterAnyLongFailure ==
    Decided =>
        compositeSignal =
            IF LongPasses THEN "long"
            ELSE IF ShortPasses THEN "short"
            ELSE "neutral"

-----------------------------------------------------------------------------
(* Properties of the order book as objects *)

\* The objects a book is made of: the book, its two arrays, their levels.
Reach(h, ref) ==
    {<<"book", ref>>, <<"array", h.books[ref].bids>>, <<"array", h.books[ref].asks>>}
    \cup {<<"level", h.arrays[h.books[ref].bids][i]>> :
              i \in 1..Len(h.arrays[h.books[ref].bids])}
    \cup {<<"level", h.arrays[h.books[ref].asks][i]>> :
              i \in 1..Len(h.arrays[h.books[ref].asks])}

\* A depth event was handled by processDepthData after the buffering window.
AfterDepthEventOnHeap == AfterDepthEvent /\ held.ref # NullRef

\* The objects and the values are the same books.
InStep ==
    /\ BookValue(heap, orderBookRef) = orderBook
    /\ BookValue(heap, previousOrderBookRef) = previousOrderBook

\* C8: after processDepthData handles an event, the book object held before
\* the event and the previousOrderBook copy taken from it both have the
\* levels and the lastUpdateId the book had before the event, and
\* previousOrderBook shares no object (book, array or level) with the current
\* book nor with the book it was copied from, so that no change of the one
\* can change the other.
C8_DiffLeavesGivenBook ==
    AfterDepthEventOnHeap =>
        /\ SameLevels(BookValue(heap, held.ref), held.value)
        /\ SameLevels(BookValue(heap, previousOrderBookRef), held.value)
        /\ Reach(heap, previousOrderBookRef) \cap Reach(heap, orderBookRef) = {}
        /\ Reach(heap, previousOrderBookRef) \cap Reach(heap, held.ref) = {}

\* C8's case: an applied event changed, removed or added levels of a book
\* that had levels on both sides; the current book is a new object with
\* other levels, the book held before is as it was.
C8_Witness ==
    /\ AfterDepthEventOnHeap
    /\ last.outcome = "applied"
    /\ held.value.bids # <<>>
    /\ held.value.asks # <<>>
    /\ orderBookRef # held.ref
    /\ BookValue(heap, orderBookRef).bids # held.value.bids
    /\ BookValue(heap, orderBookRef).asks # held.value.asks
    /\ SameLevels(BookValue(heap, held.ref), held.value)
    /\ InStep

-----------------------------------------------------------------------------
(* Properties of the score and of the vetoes *)

\* The analysis cycle has computed the score of its signals (the score and
\* the decision are set in one step).
Scored == compositeSignal # NotDecided

\* The vetoes of the long side: (a) bearish divergence, (b) order book in
\* downtrend with no buying pressure and no volume spike, (c) no bullish
\* cross, buying pressure or volume spike while the long score is below 10,
\* (d) last candle volume below half of volumeEMA with no buying pressure.
LongVeto ==
    \/ detectDivergence(candleAnalysis, obAnalysis).bearishDivergence
    \/ /\ obAnalysis.inDowntrend
       /\ ~candleAnalysis.buyingPressure
       /\ ~candleAnalysis.volumeSpike
    \/ /\ ~candleAnalysis.emaBullishCross
       /\ ~candleAnalysis.buyingPressure
       /\ ~candleAnalysis.volumeSpike
       /\ signalScore.long < 10
    \/ /\ 2 * candleVolume < candleAnalysis.volumeEMA
       /\ ~candleAnalysis.buyingPressure

\* The vetoes of the short side, mirrored.
ShortVeto ==
    \/ detectDivergence(candleAnalysis, obAnalysis).bullishDivergence
    \/ /\ obAnalysis.inUptrend
       /\ ~candleAnalysis.sellingPressure
       /\ ~candleAnalysis.volumeSpike
    \/ /\ ~candleAnalysis.emaBearishCross
       /\ ~candleAnalysis.sellingPressure
       /\ ~candleAnalysis.volumeSpike
       /\ signalScore.short < 10
    \/ /\ 2 * candleVolume < candleAnalysis.volumeEMA
       /\ ~candleAnalysis.sellingPressure

\* C11: long is decided only if the long score is at least REQUIRED_SCORE
\* and none of the four long vetoes holds; short is decided only if the short
\* score is at least REQUIRED_SCORE and none of the mirrored vetoes holds.
C11_SignalOnlyUnvetoed ==
    /\ compositeSignal = "long" =>
           signalScore.long >= REQUIRED_SCORE /\ ~LongVeto
    /\ compositeSignal = "short" =>
           signalScore.short >= REQUIRED_SCORE /\ ~ShortVeto

\* C11's case: long decided on a score of exactly REQUIRED_SCORE, with a
\* last candle volume of exactly half of volumeEMA and no buying pressure.
C11_Witness ==
    /\ compositeSignal = "long"
    /\ signalScore.long = REQUIRED_SCORE
    /\ 2 * candleVolume = candleAnalysis.volumeEMA
    /\ ~candleAnalysis.buyingPressure

C13_NoBaseNoScore ==
    Scored =>
        /\ (~candleAnalysis.emaBullishCross /\ ~candleAnalysis.buyingPressure)
               => signalScore.long = 0
        /\ (~candleAnalysis.emaBearishCross /\ ~candleAnalysis.sellingPressure)
               => signalScore.short = 0

\* C14: both scores lie in [0, 10].
C14_ScoresInRange ==
    Scored => signalScore.long \in 0..10 /\ signalScore.short \in 0..10

-----------------------------------------------------------------------------
(* calculateSignalScore on two inputs that differ in one sub-signal *)

\* The sub-signals that add to the long score.
LongCandleSubSignals == {"buyingPressure", "emaBullishCross", "nearLowerBand"}
LongBookSubSignals == {"strongBidImbalance", "supportDetected"}
LongSubSignals == LongCandleSubSignals \cup LongBookSubSignals

\* The inputs of calculateSignalScore followed: every value of the candle
\* signals the long score reads, every order-book signal generateSignals
\* can produce, a last volume at and above the volume threshold.  The candle
\* signals only the short score reads are false.
LongScoreInputs ==
    {[candleSignals |->
          [error |-> FALSE,
           emaBullishCross |-> flags[1], buyingPressure |-> flags[2],
           volumeSpike |-> flags[3], trendConfirmed |-> flags[4],
           nearLowerBand |-> flags[5], isOverbought |-> flags[6],
           emaFast |-> ema[1], emaMedium |-> ema[2], emaSlow |-> ema[3],
           volumeEMA |-> volumeEMA,
           emaBearishCross |-> FALSE, sellingPressure |-> FALSE,
           nearUpperBand |-> FALSE, downtrendConfirmed |-> FALSE],
      obSignals |-> obSignals,
      lastVolume |-> lastVolume] :
        flags \in BOOLEAN \X BOOLEAN \X BOOLEAN \X BOOLEAN \X BOOLEAN \X BOOLEAN,
        ema \in EmaValues, volumeEMA \in VolumeEMAs,
        obSignals \in ObSignals, lastVolume \in {13, 14}}

\* Whether a sub-signal is set in the inputs.
IsRaised(inputs, signal) ==
    IF signal \in LongCandleSubSignals THEN inputs.candleSignals[signal]
    ELSE inputs.obSignals[signal]

\* The inputs with one sub-signal set to true and everything else as it is.
Raised(inputs, signal) ==
    IF signal \in LongCandleSubSignals
    THEN [inputs EXCEPT !.candleSignals[signal] = TRUE]
    ELSE [inputs EXCEPT !.obSignals[signal] = TRUE]

\* calculateSignalScore called on the inputs, and on the inputs with one
\* sub-signal raised from false to true.
ScoreWithRaised(signal) ==
    /\ raisedSignal = NoSignals
    /\ ~IsRaised(scoreInputs, signal)
    /\ raisedSignal' = signal
    /\ scoreBefore' = calculateSignalScore(scoreInputs.candleSignals,
                                           scoreInputs.obSignals,
                                           scoreInputs.lastVolume)
    /\ scoreAfter' = LET raised == Raised(scoreInputs, signal)
                     IN  calculateSignalScore(raised.candleSignals,
                                              raised.obSignals, raised.lastVolume)
    /\ UNCHANGED scoreInputs
    /\ UNCHANGED <<pairVars, decisionVars, heapVars>>
    /\ UNCHANGED <<alertVars, klineVars, loopVars>>
    /\ UNCHANGED restVars

InitScoreInputs ==
    /\ InitPair /\ InitDecision /\ InitHeap
    /\ InitAlert /\ InitKline /\ InitLoop /\ InitRest
    /\ scoreInputs \in LongScoreInputs
    /\ raisedSignal = NoSignals
    /\ scoreBefore = NoSignals
    /\ scoreAfter = NoSignals

NextScore == \E signal \in LongSubSignals : ScoreWithRaised(signal)

SpecScore == InitScoreInputs /\ [][NextScore]_vars

\* C15: with every other input fixed, raising a qualifying long sub-signal
\* (buyingPressure, emaBullishCross, nearLowerBand, strongBidImbalance,
\* supportDetected) from false to true never decreases the long score.
C15_LongScoreMonotone ==
    raisedSignal # NoSignals => scoreAfter.long >= scoreBefore.long

\* C15's case: raising supportDetected on inputs that already score on the
\* long side (the base holds, the order book is not in a downtrend, the cap
\* of 10 is not reached) raises the long score by one.
C15_Witness ==
    /\ raisedSignal = "supportDetected"
    /\ scoreBefore.long \in 1..9
    /\ scoreAfter.long = scoreBefore.long + 1

-----------------------------------------------------------------------------
(* Alerts and their cooldown: handleSignalAlert, isInCooldown,             *)
(* updateCooldown, cleanupOldCooldowns, TelegramBotHandler.sendAlert.      *)
(* Time is counted in ticks of the clock.                                  *)

\* The last tick of the clock followed.
MaxClock == 5

\* cooldownMs, the cooldown window of a pair (config.tradingPairs[symbol]
\* .cooldown, 10 minutes for every pair listed), in ticks.
CooldownTicks == 2

\* twentyFourHours, the age at which cleanupOldCooldowns forgets an alert,
\* in ticks: longer than the cooldown window, as 24 hours are.
twentyFourHours == 3

\* config.telegramBotEnabled
telegramBotEnabled == TRUE

\* config.alertSignals
alertSignals == {"long", "short"}

\* isInCooldown with `remainingMs > 1` for `remainingMs > 0`: the window ends
\* a tick early.
isInCooldownEndsEarly(times, symbol, time) ==
    LET lastSignal == times[symbol]
        timeSinceLastSignal == time - lastSignal
        remainingMs == CooldownTicks - timeSinceLastSignal
    IN  IF lastSignal = NoTime THEN FALSE ELSE remainingMs > 1

\* isInCooldown, lines 1765-1780
isInCooldown(times, symbol, time) ==
    LET lastSignal == times[symbol]
        timeSinceLastSignal == time - lastSignal
        remainingMs == CooldownTicks - timeSinceLastSignal
    IN  IF lastSignal = NoTime THEN FALSE ELSE remainingMs > 0

\* cleanupOldCooldowns, lines 1787-1798
cleanupOldCooldowns(times, time) ==
    [key \in Symbols |->
        IF times[key] # NoTime /\ time - times[key] > twentyFourHours
        THEN NoTime ELSE times[key]]

\* updateCooldown, lines 1782-1785
updateCooldown(times, symbol, time) ==
    cleanupOldCooldowns([times EXCEPT ![symbol] = time], time)

\* TelegramBotHandler.sendAlert: the message goes out unless the bot is
\* disabled or the signal is not among config.alertSignals.
sendAlert(sent, alertData) ==
    IF ~telegramBotEnabled \/ alertData.signal \notin alertSignals
    THEN sent
    ELSE Append(sent, alertData)

\* The condition of line 1494 without its test of testMode.
ShouldAlertInTestMode(mode, signal, inCooldown) ==
    /\ signal \in {"long", "short"}
    /\ ~inCooldown

\* `!this.testMode && (compositeSignal === 'long' || compositeSignal ===
\* 'short') && !this.isInCooldown(symbol)`, line 1494.
ShouldAlert(mode, signal, inCooldown) ==
    /\ ~mode
    /\ signal \in {"long", "short"}
    /\ ~inCooldown

\* handleSignalAlert, lines 1493-1517.  The alert is recorded with the time
\* it was sent at.
handleSignalAlert(symbol, signal) ==
    /\ LET inCooldown == isInCooldown(lastSignalTimes, symbol, clock)
           dispatch == ShouldAlert(botTestMode, signal, inCooldown)
       IN  /\ alerts' = IF dispatch
                        THEN sendAlert(alerts, [pair |-> symbol, signal |-> signal,
                                                time |-> clock])
                        ELSE alerts
           /\ lastSignalTimes' = IF dispatch
                                 THEN updateCooldown(lastSignalTimes, symbol, clock)
                                 ELSE lastSignalTimes
           /\ lastAlert' = [symbol |-> symbol, signal |-> signal,
                            inCooldown |-> inCooldown,
                            before |-> lastSignalTimes[symbol],
                            sent |-> dispatch]
    /\ UNCHANGED clock

\* A call of handleSignalAlert with a decision of some cycle.
HandleSignalAlert(symbol, signal) ==
    /\ handleSignalAlert(symbol, signal)
    /\ UNCHANGED <<pairVars, decisionVars, heapVars>>
    /\ UNCHANGED <<scoreVars, klineVars, loopVars>>
    /\ UNCHANGED restVars

\* Date.now() moves on.
Tick ==
    /\ clock < MaxClock
    /\ clock' = clock + 1
    /\ UNCHANGED <<lastSignalTimes, alerts, lastAlert>>
    /\ UNCHANGED <<pairVars, decisionVars, heapVars>>
    /\ UNCHANGED <<scoreVars, klineVars, loopVars>>
    /\ UNCHANGED restVars

\* The decisions of the analysis cycles of every pair, as time passes.
NextAlert ==
    \/ \E symbol \in Symbols, signal \in {"long", "short", "neutral"} :
           HandleSignalAlert(symbol, signal)
    \/ Tick

SpecAlert == Init /\ [][NextAlert]_vars

\* The alerts sent before the last call of handleSignalAlert.
AlertsBefore == IF lastAlert.sent THEN SubSeq(alerts, 1, Len(alerts) - 1) ELSE alerts

\* At the last call of handleSignalAlert (no tick since), its pair had sent
\* an alert less than a cooldown window ago.
AlertedWithinWindow ==
    \E i \in 1..Len(AlertsBefore) :
        /\ AlertsBefore[i].pair = lastAlert.symbol
        /\ clock - AlertsBefore[i].time < CooldownTicks

\* C16: a long or short decision for a pair that sent an alert less than its
\* cooldown window ago sends no alert and leaves the pair's last-signal time
\* as it was; and any two alerts sent for one pair are at least a cooldown
\* window apart.
C16_CooldownSuppresses ==
    /\ (/\ lastAlert.signal \in {"long", "short"}
        /\ AlertedWithinWindow)
           => /\ ~lastAlert.sent
              /\ lastSignalTimes[lastAlert.symbol] = lastAlert.before
    /\ \A i, j \in 1..Len(alerts) :
           (i < j /\ alerts[i].pair = alerts[j].pair)
               => alerts[j].time - alerts[i].time >= CooldownTicks

\* C16's case: a pair has sent two alerts exactly a cooldown window apart,
\* and a further short decision for it, within the window of the second, was
\* suppressed.
C16_Witness ==
    /\ lastAlert.signal = "short"
    /\ lastAlert.inCooldown
    /\ ~lastAlert.sent
    /\ \E i, j \in 1..Len(alerts) :
           /\ i < j
           /\ alerts[i].pair = lastAlert.symbol
           /\ alerts[j].pair = lastAlert.symbol
           /\ alerts[j].time - alerts[i].time = CooldownTicks
           /\ clock - alerts[j].time < CooldownTicks

-----------------------------------------------------------------------------
(* The candles of a pair: fetchInitialCandles and processKlineData *)

\* config.maxCandles (168 for the 1h timeframe), scaled down.
maxCandles == 3

\* The last candle interval the stream reaches.
MaxKlineTime == 5

\* The close prices on the wire.
WireCloses == {"100.00", "101.00"}

\* [k[0], parseFloat(k[1]), ..., parseFloat(k[5])]: open time, open, high,
\* low, close, volume.  Open, high, low and volume are the same on every
\* kline followed.
Candle(t, close) ==
    <<t, parseFloat("100.00"), parseFloat("101.00"), parseFloat("99.00"),
      parseFloat(close), parseFloat("2.000")>>

\* The klines the REST endpoint returns for a limit of maxCandles: those of
\* the intervals 1..n, n <= maxCandles, the last one still forming.
InitialKlines ==
    {[i \in 1..n |-> [t |-> i, c |-> "100.00"]] : n \in 0..maxCandles}

\* fetchInitialCandles, lines 1270-1291: before the kline subscription.
FetchInitialCandles(klines) ==
    /\ candles = <<>>
    /\ lastKline.candle = <<>>
    /\ klines # <<>>
    /\ candles' = [i \in 1..Len(klines) |-> Candle(klines[i].t, klines[i].c)]
    /\ closed' = [i \in 1..Len(klines) |-> FALSE]
    /\ UNCHANGED lastKline
    /\ UNCHANGED <<pairVars, decisionVars, heapVars>>
    /\ UNCHANGED <<scoreVars, alertVars, loopVars>>
    /\ UNCHANGED restVars

\* The interval of the next kline event: the stream reports one interval
\* until it closes (x = true), then the next one.
KlineTime ==
    IF lastKline.candle # <<>>
    THEN IF lastKline.x THEN lastKline.candle[1] + 1 ELSE lastKline.candle[1]
    ELSE IF candles # <<>> THEN candles[Len(candles)][1] ELSE 1

\* The kline events the stream can send next.
KlineEvents ==
    {[k |-> [t |-> KlineTime, c |-> close, x |-> x]] :
        close \in WireCloses, x \in BOOLEAN}

\* candles.pop() for candles.shift(): the newest candle goes.
pop(list) == SubSeq(list, 1, Len(list) - 1)

\* candles.shift()
shift(list) == Tail(list)

\* processKlineData, lines 1293-1315
ProcessKlineData(data) ==
    /\ data.k.t <= MaxKlineTime
    /\ LET kline == data.k
           candle == Candle(kline.t, kline.c)
           pushed == Append(candles, candle)
           pushedClosed == Append(closed, TRUE)
       IN  /\ IF kline.x
              THEN IF Len(pushed) > maxCandles
                   THEN candles' = shift(pushed) /\ closed' = shift(pushedClosed)
                   ELSE candles' = pushed /\ closed' = pushedClosed
              ELSE IF Len(candles) > 0
                   THEN /\ candles' = [candles EXCEPT ![Len(candles)] = candle]
                        /\ closed' = [closed EXCEPT ![Len(closed)] = FALSE]
                   ELSE UNCHANGED <<candles, closed>>
           /\ lastKline' = [x |-> kline.x, candle |-> candle, before |-> candles,
                            closedBefore |-> closed]
    /\ UNCHANGED <<pairVars, decisionVars, heapVars>>
    /\ UNCHANGED <<scoreVars, alertVars, loopVars>>
    /\ UNCHANGED restVars

NextKline ==
    \/ \E klines \in InitialKlines : FetchInitialCandles(klines)
    \/ \E data \in KlineEvents : ProcessKlineData(data)

SpecKline == Init /\ [][NextKline]_vars

\* A kline event has been handled.
AfterKline == lastKline.candle # <<>>

\* How many candles the last kline event evicted.
Evicted ==
    Len(lastKline.before) + (IF lastKline.x THEN 1 ELSE 0) - Len(candles)

\* C17: a candle stored by a closing kline event (x = true) is not changed
\* by a later kline event: as long as it is in the list it has the values it
\* was stored with.
C17_ClosedCandleKept ==
    AfterKline =>
        \A i \in 1..Len(lastKline.before) :
            (lastKline.closedBefore[i] /\ i > Evicted)
                => candles[i - Evicted] = lastKline.before[i]

\* C18: the list never holds more than maxCandles candles, and a closed
\* candle appended to a full list evicts exactly the oldest candle and keeps
\* the order of the others.
C18_CandlesBounded ==
    /\ Len(candles) <= maxCandles
    /\ (AfterKline /\ lastKline.x /\ Len(lastKline.before) = maxCandles)
           => candles = Tail(lastKline.before) \o <<lastKline.candle>>

\* C18's case: a closing event arrived on a full list of candles of more than
\* one close price; the list is still full.
C18_Witness ==
    /\ AfterKline
    /\ lastKline.x
    /\ Len(lastKline.before) = maxCandles
    /\ Len(candles) = maxCandles
    /\ lastKline.before[1] # lastKline.before[2]
    /\ candles[1] = lastKline.before[2]
    /\ candles[Len(candles)] = lastKline.candle

-----------------------------------------------------------------------------
(* The analysis loop: runAnalysis, executeAnalysisCycle, analyzeMarket's   *)
(* try/catch and shutdown                                                  *)

\* The cycles followed.
MaxCycles == 3

\* How a pair's analysis pipeline can end: with a result, with too few
\* candles (analyzeMarket returns null), or with an exception thrown inside
\* performMarketAnalysis.
AnalysisOutcomes == {"result", "null", "throws"}

\* analyzeMarket with `return this.performMarketAnalysis(...)` for `return
\* await ...`: the rejection passes the try/catch and rejects the promise.
analyzeMarketWithoutAwait(outcome) ==
    IF outcome = "throws" THEN "rejected" ELSE outcome

\* analyzeMarket, lines 1421-1428: what its promise settles with.  An
\* exception is caught and null is returned.
analyzeMarketSettles(outcome) ==
    IF outcome = "throws" THEN "caught" ELSE outcome

\* `while (true)` for `while (this.isRunning)`
ContinuesAlways == TRUE

\* `while (this.isRunning)`, line 1803
Continues == isRunning

\* runAnalysis is called, line 1802 (BootManager.executeBootSequence).
RunAnalysis ==
    /\ loopPc = "not started"
    /\ isRunning' = TRUE
    /\ loopPc' = "top"
    /\ UNCHANGED <<analysis, cyclesStarted, cyclesFinished, output, shutdownAt>>
    /\ UNCHANGED <<pairVars, decisionVars, heapVars>>
    /\ UNCHANGED <<scoreVars, alertVars, klineVars>>
    /\ UNCHANGED restVars

\* The loop condition holds: executeAnalysisCycle calls analyzeMarket for
\* every pair, lines 1803-1806 and 1818-1820.
StartCycle ==
    /\ loopPc = "top"
    /\ Continues
    /\ cyclesStarted < MaxCycles
    /\ loopPc' = "cycle"
    /\ analysis' = [symbol \in Symbols |-> "running"]
    /\ cyclesStarted' = cyclesStarted + 1
    /\ UNCHANGED <<isRunning, cyclesFinished, output, shutdownAt>>
    /\ UNCHANGED <<pairVars, decisionVars, heapVars>>
    /\ UNCHANGED <<scoreVars, alertVars, klineVars>>
    /\ UNCHANGED restVars

\* The loop condition fails: runAnalysis returns.
LoopReturns ==
    /\ loopPc = "top"
    /\ ~Continues
    /\ loopPc' = "returned"
    /\ UNCHANGED <<isRunning, analysis, cyclesStarted, cyclesFinished, output,
                   shutdownAt>>
    /\ UNCHANGED <<pairVars, decisionVars, heapVars>>
    /\ UNCHANGED <<scoreVars, alertVars, klineVars>>
    /\ UNCHANGED restVars

\* One pair's analyzeMarket settles, lines 1412-1429.
AnalyzeMarket(symbol, outcome) ==
    /\ loopPc = "cycle"
    /\ analysis[symbol] = "running"
    /\ analysis' = [analysis EXCEPT ![symbol] = analyzeMarketSettles(outcome)]
    /\ UNCHANGED <<isRunning, loopPc, cyclesStarted, cyclesFinished, output,
                   shutdownAt>>
    /\ UNCHANGED <<pairVars, decisionVars, heapVars>>
    /\ UNCHANGED <<scoreVars, alertVars, klineVars>>
    /\ UNCHANGED restVars

\* runAnalysis without its try/catch: a cycle that throws rejects the promise
\* of runAnalysis and the loop is over.
AfterCycleUncaught(threw) == IF threw THEN "crashed" ELSE "waiting"

\* runAnalysis, lines 1805-1813: after a cycle the loop waits for what is
\* left of analysisInterval; after a cycle that threw the catch block waits
\* for reconnectInterval.
AfterCycle(threw) == IF threw THEN "backoff" ELSE "waiting"

\* Promise.all settles, lines 1818-1821 and 1805-1813.  With every promise
\* fulfilled the results that are not null go to logAnalysisResults, which
\* may throw (logThrows); with a promise rejected executeAnalysisCycle
\* throws and nothing is logged.
CycleSettles(logThrows) ==
    /\ loopPc = "cycle"
    /\ \A symbol \in Symbols : analysis[symbol] # "running"
    /\ LET rejected == \E symbol \in Symbols : analysis[symbol] = "rejected"
           threw == rejected \/ logThrows
       IN  /\ output' = [outcomes |-> analysis,
                         logged |-> IF rejected THEN {}
                                    ELSE {symbol \in Symbols : analysis[symbol] = "result"},
                         passed |-> ~rejected,
                         threw |-> threw]
           /\ loopPc' = AfterCycle(threw)
    /\ cyclesFinished' = cyclesFinished + 1
    /\ analysis' = [symbol \in Symbols |-> "idle"]
    /\ UNCHANGED <<isRunning, cyclesStarted, shutdownAt>>
    /\ UNCHANGED <<pairVars, decisionVars, heapVars>>
    /\ UNCHANGED <<scoreVars, alertVars, klineVars>>
    /\ UNCHANGED restVars

\* `await wait(...)` is over, lines 1809 and 1812.
WaitDone ==
    /\ loopPc \in {"waiting", "backoff"}
    /\ loopPc' = "top"
    /\ UNCHANGED <<isRunning, analysis, cyclesStarted, cyclesFinished, output,
                   shutdownAt>>
    /\ UNCHANGED <<pairVars, decisionVars, heapVars>>
    /\ UNCHANGED <<scoreVars, alertVars, klineVars>>
    /\ UNCHANGED restVars

\* shutdown of a bot whose loop has been started, line 1829.
Shutdown ==
    /\ loopPc # "not started"
    /\ shutdownAt.started = -1
    /\ isRunning' = FALSE
    /\ shutdownAt' = [started |-> cyclesStarted, finished |-> cyclesFinished]
    /\ UNCHANGED <<loopPc, analysis, cyclesStarted, cyclesFinished, output>>
    /\ UNCHANGED <<pairVars, decisionVars, heapVars>>
    /\ UNCHANGED <<scoreVars, alertVars, klineVars>>
    /\ UNCHANGED restVars

\* The steps of runAnalysis and of the promises it awaits.
LoopStep ==
    \/ RunAnalysis
    \/ StartCycle
    \/ LoopReturns
    \/ \E symbol \in Symbols, outcome \in AnalysisOutcomes : AnalyzeMarket(symbol, outcome)
    \/ \E logThrows \in BOOLEAN : CycleSettles(logThrows)
    \/ WaitDone

NextLoop == LoopStep \/ Shutdown

SpecLoop == Init /\ [][NextLoop]_vars

\* The event loop runs every continuation that is ready: a timer that has
\* expired fires, an analysis that has been started settles.
SpecLoopFair == SpecLoop /\ WF_vars(LoopStep)

\* shutdown has been called.
ShutDown == shutdownAt.started # -1

\* C19: after shutdown has set isRunning to false no further cycle is
\* started, and runAnalysis eventually returns with every cycle it started,
\* the one in progress at shutdown included, finished.
C19_ShutdownEndsLoop ==
    /\ [][ShutDown => cyclesStarted' = cyclesStarted]_vars
    /\ ShutDown ~> (loopPc = "returned" /\ cyclesFinished = cyclesStarted)

\* C19's case: shutdown was called while a cycle was in progress; the cycle
\* has finished, no other was started, and runAnalysis has returned.
C19_Witness ==
    /\ ShutDown
    /\ shutdownAt.started > shutdownAt.finished
    /\ loopPc = "returned"
    /\ cyclesStarted = shutdownAt.started
    /\ cyclesFinished = shutdownAt.started

\* An exception was thrown in a pair's analysis in the last finished cycle.
Threw(symbol) == output.outcomes[symbol] \in {"caught", "rejected"}

\* C20: when a pair's analysis throws, that pair is left out of the cycle's
\* output, the results of the other pairs of the cycle are passed on to
\* logAnalysisResults, and the loop goes on: runAnalysis returns only after
\* a shutdown.
C20_ExceptionStaysInPair ==
    /\ (cyclesFinished > 0 /\ \E symbol \in Symbols : Threw(symbol))
           => /\ output.passed
              /\ output.logged =
                     {symbol \in Symbols : output.outcomes[symbol] = "result"}
              /\ \A symbol \in Symbols : Threw(symbol) => symbol \notin output.logged
    /\ loopPc = "returned" => ShutDown

\* C20's case: one pair threw, the other pair's result was logged, and the
\* loop has started a further cycle without a shutdown.
C20_Witness ==
    /\ \E symbol \in Symbols : Threw(symbol)
    /\ output.logged # {}
    /\ loopPc = "cycle"
    /\ cyclesStarted > cyclesFinished
    /\ cyclesFinished > 0
    /\ ~ShutDown


\* The last step finished a cycle that threw.
CycleThrew == cyclesFinished' = cyclesFinished + 1 /\ output'.threw

\* C21: a cycle that throws is caught by runAnalysis, which waits the
\* reconnect interval and then, unless the bot is shut down meanwhile,
\* starts another cycle; the loop is only ever over after a shutdown.
C21_CycleErrorRetried ==
    /\ [][CycleThrew => loopPc' = "backoff"]_vars
    /\ [](loopPc \in {"returned", "crashed"} => ShutDown)
    /\ (loopPc = "backoff" /\ cyclesStarted < MaxCycles)
           ~> (loopPc = "cycle" \/ ShutDown)

\* C21's case: a cycle threw and, with no shutdown, the next cycle has been
\* started.
C21_Witness ==
    /\ output.threw
    /\ ~ShutDown
    /\ loopPc = "cycle"
    /\ cyclesStarted = cyclesFinished + 1

-----------------------------------------------------------------------------
(* analyzeMarket on the candles of a pair                                  *)

\* config.riskManagement.minCandlesRequired (20 with maxCandles 168), on the
\* scale of maxCandles.
minCandlesRequired == 2

\* analyzeMarket with `candles.length < 1` for
\* `candles.length < minCandlesRequired`.
HasAnyCandle(list) == Len(list) >= 1

\* analyzeMarket, line 1421: `candles.length < minCandlesRequired` fails.
HasEnoughCandles(list) == Len(list) >= minCandlesRequired

\* What the analysers report to performMarketAnalysis, lines 1445-1448: a
\* volume spike on a high last volume with every reading of the book that
\* is qualified and has support, resistance and walls.
AnalysisInputs ==
    {[candleSignals |-> candleSignals, obSignals |-> generateSignals(metrics),
      lastVolume |-> 14] :
        candleSignals \in {c \in CandleSignals : c.volumeSpike},
        metrics \in {m \in OrderBookReadings :
                        /\ m.hasValidOrderBook /\ m.hasMeaningfulVolume
                        /\ m.hasGoodDepth /\ m.isStable
                        /\ m.supportLevels = 1 /\ m.resistanceLevels = 1
                        /\ m.bidWalls = 1 /\ m.askWalls = 1
                        /\ m.bidAskImbalance \in {40, 100, 200}
                        /\ m.netVolumeChange # 0}}

\* JavaScript's undefined.
undefined == "undefined"

\* `new PriceCalculator(this.config)`, initComponents: the constructor
\* `constructor(config, pairConfigs)` gets no second argument, and
\* this.pairConfigs of the bot's price calculator is undefined.
priceCalculatorPairConfigs == undefined

\* `const pairConfig = this.pairConfigs[symbol]`, the sixth statement of
\* calculateSuggestedPrices, ahead of every test of the signal: reading a
\* property of undefined throws a TypeError.
PairConfigThrows(pairConfigs) == pairConfigs = undefined

\* analyzeMarket of the pair whose candles are followed, lines 1412-1429,
\* with performMarketAnalysis, lines 1443-1491, when the book needs no
\* snapshot (line 1415).  What calculateSuggestedPrices throws is caught at
\* line 1424 and analyzeMarket returns null, handleSignalAlert not having
\* been reached.
AnalyzePair(symbol) ==
    /\ analysis[symbol] = "idle"
    /\ IF ~HasEnoughCandles(candles)
       THEN /\ analysis' = [analysis EXCEPT ![symbol] = "null"]
            /\ UNCHANGED decisionVars
            /\ UNCHANGED alertVars
       ELSE /\ \E inputs \in AnalysisInputs :
                  /\ candleAnalysis' = inputs.candleSignals
                  /\ obAnalysis' = inputs.obSignals
                  /\ candleVolume' = inputs.lastVolume
            /\ signalScore' \in SignalScores(candleAnalysis', obAnalysis', candleVolume')
            /\ compositeSignal' =
                   determineCompositeSignal(candleAnalysis', obAnalysis',
                                            candleVolume', signalScore')
            /\ IF PairConfigThrows(priceCalculatorPairConfigs)
               THEN /\ UNCHANGED alertVars
                    /\ analysis' = [analysis EXCEPT ![symbol] = "null"]
               ELSE /\ handleSignalAlert(symbol, compositeSignal')
                    /\ analysis' = [analysis EXCEPT ![symbol] = "result"]
    /\ UNCHANGED <<isRunning, loopPc, cyclesStarted, cyclesFinished, output,
                   shutdownAt>>
    /\ UNCHANGED <<pairVars, heapVars>>
    /\ UNCHANGED <<scoreVars, klineVars>>
    /\ UNCHANGED restVars

\* The first candles of a pair are fetched, and the pair is analysed once.
NextAnalyze ==
    \/ \E klines \in InitialKlines : FetchInitialCandles(klines)
    \/ AnalyzePair("BTCUSDT")

SpecAnalyze == Init /\ [][NextAnalyze]_vars

-----------------------------------------------------------------------------
(* PriceCalculator.calculateSuggestedPrices                                *)
(* Prices are whole ticks; a product with a fraction is rounded down to    *)
(* the tick.                                                               *)

\* config.riskManagement.riskRewardRatio
riskRewardRatio == 2

\* config.riskManagement.longEntryDiscount, 0.002, in thousandths
longEntryDiscount == 2

\* config.riskManagement.shortEntryPremium, 0.001, in thousandths
shortEntryPremium == 1

\* config.riskManagement.bollingerBandAdjustment, 0.002, in thousandths
bollingerBandAdjustment == 2

\* pairConfig.volatilityMultiplier of BTCUSDT, 1.0, in tenths
volatilityMultiplier == 10

Max(x, y) == IF x > y THEN x ELSE y

Abs(x) == IF x < 0 THEN -x ELSE x

\* The true range of candle i of the list: Math.max(tr1, tr2, tr3).
TrueRange(list, i) ==
    LET high == list[i][3]
        low == list[i][4]
        prevClose == list[i - 1][5]
    IN  Max(high - low, Max(Abs(high - prevClose), Abs(low - prevClose)))

\* The sum of the true ranges of the candles from..Len(list).
RECURSIVE SumTrueRanges(_, _)
SumTrueRanges(list, from) ==
    IF from > Len(list) THEN 0
    ELSE TrueRange(list, from) + SumTrueRanges(list, from + 1)

\* PriceCalculator.calculateATR
calculateATR(list, period) ==
    IF Len(list) < period + 1 THEN 0
    ELSE SumTrueRanges(list, Len(list) - period + 1) \div period

\* dynamicStopPercent in ten-thousandths: 0.02 * volatilityMultiplier *
\* (1 + volatility * 10), kept within 1.5% and 5%.
dynamicStopPercent(atr, currentPrice) ==
    LET volatilityAdjustedStop ==
            (20 * volatilityMultiplier * (currentPrice + 10 * atr)) \div currentPrice
    IN  Min(Max(volatilityAdjustedStop, 150), 500)

\* `levels[0]?.[0] || currentPrice`
BestPrice(levels, currentPrice) ==
    IF levels # <<>> /\ levels[1][1] # 0 THEN levels[1][1] ELSE currentPrice

\* PriceCalculator.calculateSuggestedPrices: entry, stopLoss and takeProfit.
\* A null price is 0.
calculateSuggestedPrices(book, list, signal, candleSignals) ==
    LET currentPrice == list[Len(list)][5]
        bestBid == BestPrice(book.bids, currentPrice)
        bestAsk == BestPrice(book.asks, currentPrice)
        bb == candleSignals.bollingerBands
        atr == calculateATR(list, 14)
        stopPercent == dynamicStopPercent(atr, currentPrice)
    IN  IF signal = "long"
        THEN LET discounted == (bestAsk * (1000 - longEntryDiscount)) \div 1000
                 entryPrice ==
                     IF useBollingerBands /\ bb.present /\ candleSignals.nearLowerBand
                     THEN (discounted * (1000 - bollingerBandAdjustment)) \div 1000
                     ELSE discounted
                 atrStopPrice == currentPrice - (atr * 15) \div 10
                 percentageStopPrice == (entryPrice * (10000 - stopPercent)) \div 10000
                 stop == Max(atrStopPrice, percentageStopPrice)
                 stopLossPrice ==
                     IF useBollingerBands /\ bb.present /\ bb.lower # 0
                     THEN Max(stop, (bb.lower * 999) \div 1000)
                     ELSE stop
                 riskAmount == entryPrice - stopLossPrice
             IN  [signal |-> signal, entry |-> entryPrice, stopLoss |-> stopLossPrice,
                  takeProfit |-> entryPrice + riskAmount * riskRewardRatio]
        ELSE IF signal = "short"
        THEN LET raised == (bestBid * (1000 + shortEntryPremium)) \div 1000
                 entryPrice ==
                     IF useBollingerBands /\ bb.present /\ candleSignals.nearUpperBand
                     THEN (raised * (1000 + bollingerBandAdjustment)) \div 1000
                     ELSE raised
                 atrStopPrice == currentPrice + (atr * 15) \div 10
                 percentageStopPrice == (entryPrice * (10000 + stopPercent)) \div 10000
                 stop == Min(atrStopPrice, percentageStopPrice)
                 stopLossPrice ==
                     IF useBollingerBands /\ bb.present /\ bb.upper # 0
                     THEN Min(stop, (bb.upper * 1001) \div 1000)
                     ELSE stop
                 riskAmount == stopLossPrice - entryPrice
             IN  [signal |-> signal, entry |-> entryPrice, stopLoss |-> stopLossPrice,
                  takeProfit |-> entryPrice - riskAmount * riskRewardRatio]
        ELSE [signal |-> signal, entry |-> 0, stopLoss |-> 0, takeProfit |-> 0]

\* Candle windows closing at 100000 ticks: fewer candles than the ATR needs,
\* just enough, and minCandlesRequired of them; flat candles, candles with a
\* range of 0.1% and of 1% of the price.
PriceWindows ==
    {[i \in 1..n |-> <<i, 100000, 100000 + range, 100000 - range, 100000, 2>>] :
        n \in {14, 15, 20}, range \in {0, 50, 500}}

\* Books around the last close, either side possibly empty.
PriceBooks ==
    [bids : {<<>>, <<<<99990, 1>>>>}, asks : {<<>>, <<<<100010, 1>>>>}]

\* candleAnalysis.bollingerBands: none, wide bands, bands close to the price.
BollingerBands ==
    {[present |-> FALSE, lower |-> 0, upper |-> 0],
     [present |-> TRUE, lower |-> 97000, upper |-> 103000],
     [present |-> TRUE, lower |-> 99900, upper |-> 100100]}

\* The arguments of calculateSuggestedPrices.
PriceInputs ==
    [orderBook : PriceBooks, candles : PriceWindows,
     signal : {"long", "short", "neutral"},
     candleAnalysis : [bollingerBands : BollingerBands,
                       nearLowerBand : BOOLEAN, nearUpperBand : BOOLEAN]]

\* performMarketAnalysis, lines 1459-1465: calculateSuggestedPrices is called.
CalculateSuggestedPrices ==
    /\ suggestedPrices.signal = NotDecided
    /\ suggestedPrices' =
           calculateSuggestedPrices(priceInputs.orderBook, priceInputs.candles,
                                    priceInputs.signal, priceInputs.candleAnalysis)
    /\ UNCHANGED priceInputs
    /\ UNCHANGED <<bookSignalVars, bootVars, marketVars, extraVars>>
    /\ UNCHANGED <<pairVars, decisionVars, heapVars>>
    /\ UNCHANGED <<scoreVars, alertVars, klineVars, loopVars>>

InitPrices ==
    /\ InitPair /\ InitDecision /\ InitHeap
    /\ InitScore /\ InitAlert /\ InitKline /\ InitLoop
    /\ InitBookSignalVars /\ InitBootVars /\ InitMarketVars /\ InitExtraVars
    /\ priceInputs \in PriceInputs
    /\ suggestedPrices = [signal |-> NotDecided, entry |-> 0, stopLoss |-> 0,
                          takeProfit |-> 0]

NextPrices == CalculateSuggestedPrices

SpecPrices == InitPrices /\ [][NextPrices]_vars

\* C23: for a long decision stopLoss < entry < takeProfit, for a short one
\* takeProfit < entry < stopLoss.
C23_PricesOrdered ==
    /\ suggestedPrices.signal = "long"
           => /\ suggestedPrices.stopLoss < suggestedPrices.entry
              /\ suggestedPrices.entry < suggestedPrices.takeProfit
    /\ suggestedPrices.signal = "short"
           => /\ suggestedPrices.takeProfit < suggestedPrices.entry
              /\ suggestedPrices.entry < suggestedPrices.stopLoss

-----------------------------------------------------------------------------
(* OrderBookAnalyzer.analyze: the gates and the composite signal           *)

\* pairConfigs.BTCUSDT.minVolume
minVolume == 10

\* config.stabilityThreshold, 0.3, in tenths
stabilityThreshold == 3

\* hasGoodDepth: minLevels.BTCUSDT (20 of the 500 levels kept), on the
\* scale of the sides followed.
requiredLevels == 2

\* bidVol / askVol with askVol = 0 < bidVol, in percent
Infinity == 1000000

RECURSIVE calculateTotalVolume(_)
calculateTotalVolume(levels) ==
    IF levels = <<>> THEN 0 ELSE Head(levels) + calculateTotalVolume(Tail(levels))

\* OrderBookAnalyzer.calculateImbalance, in percent
calculateImbalance(bids, asks) ==
    LET bidVol == calculateTotalVolume(bids)
        askVol == calculateTotalVolume(asks)
    IN  IF askVol > 0 THEN (bidVol * 100) \div askVol
        ELSE IF bidVol > 0 THEN Infinity ELSE 100

\* hasGoodDepth with the longer side counted for the shorter one
hasGoodDepthOnOneSide(reading) ==
    /\ calculateTotalVolume(reading.bids) > 0
    /\ calculateTotalVolume(reading.asks) > 0
    /\ Max(Len(reading.bids), Len(reading.asks)) >= requiredLevels

\* OrderBookAnalyzer.hasGoodDepth
hasGoodDepth(reading) ==
    /\ calculateTotalVolume(reading.bids) > 0
    /\ calculateTotalVolume(reading.asks) > 0
    /\ Min(Len(reading.bids), Len(reading.asks)) >= requiredLevels

\* analyze and the head of generateSignals: the metrics and the gates of a
\* book.  The sides followed are shorter than config.depthLevels, so that
\* topBids and topAsks are the sides.
BookMetrics(reading) ==
    [bidAskImbalance |-> calculateImbalance(reading.bids, reading.asks),
     hasValidOrderBook |-> Len(reading.bids) > 0 /\ Len(reading.asks) > 0,
     hasMeaningfulVolume |-> /\ calculateTotalVolume(reading.bids) > minVolume
                             /\ calculateTotalVolume(reading.asks) > minVolume,
     hasGoodDepth |-> hasGoodDepth(reading),
     isStable |-> reading.stability >= stabilityThreshold,
     supportLevels |-> reading.supportLevels,
     resistanceLevels |-> reading.resistanceLevels,
     bidWalls |-> reading.bidWalls,
     askWalls |-> reading.askWalls,
     netVolumeChange |-> reading.netVolumeChange,
     closes |-> reading.closes]

\* The volumes of the levels of a side: no level, one level, and two or
\* three levels with a total below, just above and well above minVolume.
BookSides == {<<>>, <<20>>, <<4, 4>>, <<6, 6>>, <<11, 11>>, <<14, 13, 13>>}

\* The books analysed and what analyze finds on them.  calculateStability
\* gives 0.5 to 1; generateSignals is followed on lower values as well.
BookReadings ==
    [bids : BookSides, asks : BookSides, stability : {2, 3, 5, 10},
     supportLevels : 0..1, resistanceLevels : 0..1,
     bidWalls : 0..2, askWalls : 0..2,
     netVolumeChange : {0}, closes : {<<1, 2, 3>>}]

\* analyze, lines 345-440 of the README: the signals of a book.
AnalyzeBook ==
    /\ bookSignals.compositeSignal = NotDecided
    /\ bookSignals' = generateSignals(BookMetrics(bookReading))
    /\ UNCHANGED bookReading
    /\ UNCHANGED <<priceVars, bootVars, marketVars, extraVars>>
    /\ UNCHANGED <<pairVars, decisionVars, heapVars>>
    /\ UNCHANGED <<scoreVars, alertVars, klineVars, loopVars>>

InitBookSignals ==
    /\ InitPair /\ InitDecision /\ InitHeap
    /\ InitScore /\ InitAlert /\ InitKline /\ InitLoop
    /\ InitPriceVars /\ InitBootVars /\ InitMarketVars /\ InitExtraVars
    /\ bookReading \in BookReadings
    /\ bookSignals = [compositeSignal |-> NotDecided]

NextBookSignals == AnalyzeBook

SpecBookSignals == InitBookSignals /\ [][NextBookSignals]_vars

\* The book has been analysed.
BookAnalyzed == bookSignals.compositeSignal # NotDecided

\* The priority cascade on the signals of the analysed book: the first rule
\* that matches gives the composite signal.  `open` is whether the cascade
\* is entered at all, bidSkew and askSkew are the wall-count rule.
Cascade(open, bidSkew, askSkew) ==
    LET metrics == BookMetrics(bookReading)
        bid == bookSignals.strongBidImbalance
        ask == bookSignals.strongAskImbalance
    IN  IF ~open THEN "neutral"
        ELSE IF bid /\ bookSignals.supportDetected /\ metrics.bidWalls > 0
             THEN IF metrics.hasGoodDepth THEN "strong_buy" ELSE "buy"
        ELSE IF ask /\ bookSignals.resistanceDetected /\ metrics.askWalls > 0
             THEN IF metrics.hasGoodDepth THEN "strong_sell" ELSE "sell"
        ELSE IF bid /\ bookSignals.supportDetected THEN "buy"
        ELSE IF ask /\ bookSignals.resistanceDetected THEN "sell"
        ELSE IF bid THEN "weak_buy"
        ELSE IF ask THEN "weak_sell"
        ELSE IF bidSkew THEN "weak_buy"
        ELSE IF askSkew THEN "weak_sell"
        ELSE "neutral"

\* C24 as stated: the composite signal follows the cascade, whose last rule
\* is a side with walls, at least twice as many as the other side has.
C24_Cascade ==
    BookAnalyzed =>
        bookSignals.compositeSignal =
            Cascade(TRUE,
                    bookReading.bidWalls > 0
                        /\ bookReading.bidWalls >= 2 * bookReading.askWalls,
                    bookReading.askWalls > 0
                        /\ bookReading.askWalls >= 2 * bookReading.bidWalls)

\* C24, amended: a book without meaningful volume or stability is neutral;
\* otherwise the composite signal follows the cascade, whose last rule is a
\* side with more than twice as many walls as the other side has.
C24_CascadeGated ==
    BookAnalyzed =>
        bookSignals.compositeSignal =
            Cascade(BookMetrics(bookReading).hasMeaningfulVolume
                        /\ BookMetrics(bookReading).isStable,
                    bookReading.bidWalls > 2 * bookReading.askWalls,
                    bookReading.askWalls > 2 * bookReading.bidWalls)

\* C24's case: no imbalance, and the walls decide.
C24_Witness ==
    /\ BookAnalyzed
    /\ ~bookSignals.strongBidImbalance /\ ~bookSignals.strongAskImbalance
    /\ bookReading.askWalls = 1 /\ bookReading.bidWalls = 0
    /\ bookSignals.compositeSignal = "weak_sell"

\* C25: an imbalance is signalled only on a book with both sides non-empty,
\* more than minVolume on each side, requiredLevels levels on each side and
\* a stability at or above the threshold.
C25_ImbalanceGated ==
    (BookAnalyzed /\ (bookSignals.strongBidImbalance \/ bookSignals.strongAskImbalance))
        => /\ bookReading.bids # <<>> /\ bookReading.asks # <<>>
           /\ calculateTotalVolume(bookReading.bids) > minVolume
           /\ calculateTotalVolume(bookReading.asks) > minVolume
           /\ Len(bookReading.bids) >= requiredLevels
           /\ Len(bookReading.asks) >= requiredLevels
           /\ bookReading.stability >= stabilityThreshold

\* C25's case: a bid imbalance is signalled on a book that passes the gates.
C25_Witness ==
    /\ BookAnalyzed
    /\ bookSignals.strongBidImbalance
    /\ bookReading.stability = 5
    /\ calculateImbalance(bookReading.bids, bookReading.asks) >= 180

-----------------------------------------------------------------------------
(* Properties of the threshold and of the decision                         *)

\* C26: a long score of 8 with no long veto is decided long, and a short
\* score of 8 with no short veto is decided short unless long is.
C26_ThresholdEight ==
    (Scored /\ ~candleAnalysis.error)
        => /\ (signalScore.long = 8 /\ ~LongVeto) => compositeSignal = "long"
           /\ (signalScore.short = 8 /\ ~ShortVeto /\ compositeSignal # "long")
                  => compositeSignal = "short"

\* C27: the decision is one of long, short and neutral, and it is long when
\* both sides reach REQUIRED_SCORE with no veto on either.
C27_OneDecision ==
    Scored
        => /\ compositeSignal \in {"long", "short", "neutral"}
           /\ (/\ ~candleAnalysis.error
               /\ signalScore.long >= REQUIRED_SCORE /\ ~LongVeto
               /\ signalScore.short >= REQUIRED_SCORE /\ ~ShortVeto)
                  => compositeSignal = "long"

\* C27's case: both scores reach REQUIRED_SCORE, no veto holds on either
\* side, and one decision is reported.
C27_Witness ==
    /\ Scored
    /\ ~candleAnalysis.error
    /\ signalScore.long >= REQUIRED_SCORE /\ ~LongVeto
    /\ signalScore.short >= REQUIRED_SCORE /\ ~ShortVeto
    /\ compositeSignal = "long"

-----------------------------------------------------------------------------
(* Properties of the book's lastUpdateId                                   *)

\* C30: no step of a pair (applied diff, snapshot installed by the initial
\* synchronisation, by the reinitialisation timer or before an analysis)
\* lowers the lastUpdateId of its book.
C30_LastUpdateIdMonotone ==
    [][orderBook'.lastUpdateId >= orderBook.lastUpdateId]_orderBook

-----------------------------------------------------------------------------
(* BootManager: the boot sequence, the restart and the analysis loops      *)
(* Time is counted in seconds.                                             *)

\* `analysisInterval: 10000` of the 1m timeframe, in seconds.
analysisInterval == 10

\* `reconnectInterval: 5000`, in seconds.
reconnectInterval == 5

\* `await wait(1000)` of executeShutdownSequence, in seconds.
shutdownWait == 1

\* `await wait(2000)` of a restart, in seconds.
restartWait == 2

\* A call of runAnalysis is active from its start until its while loop
\* has ended.
ActiveLoops == {i \in LoopIds : loops[i].pc \in {"cycle", "sleeping"}}

\* One second passes.  A timer that has expired fires before the next one
\* does; the awaits of a cycle and of the boot sequence take any time.
TimePasses ==
    /\ \A i \in LoopIds : loops[i].pc = "sleeping" => loops[i].timer > 0
    /\ bootPc \in {"shutdown wait", "restart wait"} => bootWait > 0
    /\ loops' = [i \in LoopIds |->
                   CASE loops[i].pc = "cycle" ->
                            [loops[i] EXCEPT !.timer = Min(@ + 1, analysisInterval)]
                     [] loops[i].pc = "sleeping" ->
                            [loops[i] EXCEPT !.timer = @ - 1]
                     [] OTHER -> loops[i]]
    /\ bootWait' = Max(bootWait - 1, 0)
    /\ UNCHANGED <<bootPc, boots>>
    /\ UNCHANGED <<priceVars, bookSignalVars, marketVars, extraVars>>
    /\ UNCHANGED <<pairVars, decisionVars, heapVars>>
    /\ UNCHANGED <<scoreVars, alertVars, klineVars, loopVars>>

\* executeBootSequence({startAnalysis: true, isRestart: false}) up to its
\* first await: lines 8-57 of BootManager.
ExecuteBootSequence ==
    /\ bootPc = "idle"
    /\ boots = 0
    /\ boots' = 1
    /\ bootPc' = "booting"
    /\ UNCHANGED <<loops, bootWait>>
    /\ UNCHANGED <<priceVars, bookSignalVars, marketVars, extraVars>>
    /\ UNCHANGED <<pairVars, decisionVars, heapVars>>
    /\ UNCHANGED <<scoreVars, alertVars, klineVars, loopVars>>

\* executeBootSequence({startAnalysis: true, isRestart: true}) up to the
\* wait of executeShutdownSequence: lines 41-42 and 93-96.
ExecuteRestart ==
    /\ bootPc = "done"
    /\ boots < MaxBoots
    /\ boots' = boots + 1
    /\ isRunning' = FALSE
    /\ bootPc' = "shutdown wait"
    /\ bootWait' = shutdownWait
    /\ UNCHANGED loops
    /\ UNCHANGED <<loopPc, analysis, cyclesStarted, cyclesFinished, output,
                   shutdownAt>>
    /\ UNCHANGED <<priceVars, bookSignalVars, marketVars, extraVars>>
    /\ UNCHANGED <<pairVars, decisionVars, heapVars>>
    /\ UNCHANGED <<scoreVars, alertVars, klineVars>>

\* executeShutdownSequence after its wait, lines 97-98, and the wait of the
\* restart, line 43.
ShutdownSequenceEnds ==
    /\ bootPc = "shutdown wait"
    /\ bootWait = 0
    /\ bootPc' = "restart wait"
    /\ bootWait' = restartWait
    /\ UNCHANGED <<loops, boots>>
    /\ UNCHANGED <<priceVars, bookSignalVars, marketVars, extraVars>>
    /\ UNCHANGED <<pairVars, decisionVars, heapVars>>
    /\ UNCHANGED <<scoreVars, alertVars, klineVars, loopVars>>

\* The restart after its wait: lines 44-57.
RestartWaitEnds ==
    /\ bootPc = "restart wait"
    /\ bootWait = 0
    /\ bootPc' = "booting"
    /\ UNCHANGED <<loops, boots, bootWait>>
    /\ UNCHANGED <<priceVars, bookSignalVars, marketVars, extraVars>>
    /\ UNCHANGED <<pairVars, decisionVars, heapVars>>
    /\ UNCHANGED <<scoreVars, alertVars, klineVars, loopVars>>

\* The end of the boot sequence, lines 68-71: isRunning is set and
\* runAnalysis is called, which runs up to the first await of its first
\* cycle.
StartAnalysis ==
    /\ bootPc = "booting"
    /\ isRunning' = TRUE
    /\ loops' = [loops EXCEPT ![boots] = [pc |-> "cycle", timer |-> 0]]
    /\ bootPc' = "done"
    /\ UNCHANGED <<boots, bootWait>>
    /\ UNCHANGED <<loopPc, analysis, cyclesStarted, cyclesFinished, output,
                   shutdownAt>>
    /\ UNCHANGED <<priceVars, bookSignalVars, marketVars, extraVars>>
    /\ UNCHANGED <<pairVars, decisionVars, heapVars>>
    /\ UNCHANGED <<scoreVars, alertVars, klineVars>>

\* runAnalysis, lines 1805-1813: the cycle of a loop settles and the loop
\* sleeps for what is left of analysisInterval, or for reconnectInterval
\* when the cycle threw.
CycleEnds(i, threw) ==
    /\ loops[i].pc = "cycle"
    /\ loops' = [loops EXCEPT ![i] =
                   [pc |-> "sleeping",
                    timer |-> IF threw THEN reconnectInterval
                              ELSE Max(0, analysisInterval - loops[i].timer)]]
    /\ UNCHANGED <<bootPc, bootWait, boots>>
    /\ UNCHANGED <<priceVars, bookSignalVars, marketVars, extraVars>>
    /\ UNCHANGED <<pairVars, decisionVars, heapVars>>
    /\ UNCHANGED <<scoreVars, alertVars, klineVars, loopVars>>

\* runAnalysis, line 1803: the sleep of a loop is over and the loop tests
\* isRunning.
LoopWakes(i) ==
    /\ loops[i].pc = "sleeping"
    /\ loops[i].timer = 0
    /\ loops' = [loops EXCEPT ![i] =
                   IF isRunning THEN [pc |-> "cycle", timer |-> 0]
                   ELSE [pc |-> "returned", timer |-> 0]]
    /\ UNCHANGED <<bootPc, bootWait, boots>>
    /\ UNCHANGED <<priceVars, bookSignalVars, marketVars, extraVars>>
    /\ UNCHANGED <<pairVars, decisionVars, heapVars>>
    /\ UNCHANGED <<scoreVars, alertVars, klineVars, loopVars>>

NextBoot ==
    \/ TimePasses
    \/ ExecuteBootSequence
    \/ ExecuteRestart
    \/ ShutdownSequenceEnds
    \/ RestartWaitEnds
    \/ StartAnalysis
    \/ \E i \in LoopIds, threw \in BOOLEAN : CycleEnds(i, threw)
    \/ \E i \in LoopIds : LoopWakes(i)

SpecBoot == Init /\ [][NextBoot]_vars

-----------------------------------------------------------------------------
(* marketData: the handlers of one pair beside the data of the others      *)

\* Handlers followed on marketData.
MaxPairOps == 3

\* What a pair holds: its objects, their values and its flags.
PairValue(data, h, symbol) ==
    [refs |-> <<data[symbol].candles, data[symbol].orderBook,
                data[symbol].previousOrderBook>>,
     candles |-> h.candles[data[symbol].candles],
     orderBook |-> BookValue(h.objects, data[symbol].orderBook),
     previousOrderBook |-> BookValue(h.objects, data[symbol].previousOrderBook),
     needsReinitialization |-> data[symbol].needsReinitialization,
     bufferingUpdates |-> data[symbol].bufferingUpdates]

\* The depth events followed for a pair whose book is at lastUpdateId L:
\* one list of changes, applied, stale and beyond the gap threshold.
PairDepthEvents(L) == EventsWith(L, {<<<<<<"100.00", "2.000">>>>, <<>>>>})

\* The kline events followed for a pair: the interval after its candles.
PairKlineEvents(list) ==
    {[k |-> [t |-> Len(list) + 1, c |-> "101.00", x |-> x]] : x \in BOOLEAN}

\* The handler ran for the pair at the given time.
PairHandled(symbol, op) ==
    /\ pairOps < MaxPairOps
    /\ pairOps' = pairOps + 1
    /\ pairOp' = [symbol |-> symbol, op |-> op]
    /\ UNCHANGED <<priceVars, bookSignalVars, bootVars, extraVars>>
    /\ UNCHANGED <<pairVars, decisionVars, heapVars>>
    /\ UNCHANGED <<scoreVars, alertVars, klineVars, loopVars>>

\* processDepthData(symbol, data), lines 1317-1353, on the objects of
\* marketData[symbol].
ProcessDepthDataOf(symbol, data) ==
    LET symbolData == marketData[symbol]
        time == pairOps + 1
    IN  IF symbolData.bufferingUpdates
        THEN LET updatedOrderBook ==
                     UpdatedCopyOnHeap(marketHeap.objects, data,
                                       symbolData.orderBook, time)
             IN  /\ marketHeap' = [marketHeap EXCEPT !.objects = updatedOrderBook.heap]
                 /\ marketData' = [marketData EXCEPT
                                     ![symbol].orderBook = updatedOrderBook.ref]
                 /\ PairHandled(symbol, "buffered")
        ELSE LET copied == deepCopyOrderBookOnHeap(marketHeap.objects,
                                                   symbolData.orderBook)
                 updatedOrderBook ==
                     processIncrementalDepthUpdateOnHeap(copied.heap, data,
                                                         symbolData.orderBook, time)
             IN  /\ marketHeap' = [marketHeap EXCEPT !.objects = updatedOrderBook.heap]
                 /\ IF updatedOrderBook.ref = NullRef
                    THEN /\ marketData' = [marketData EXCEPT
                                ![symbol].previousOrderBook = copied.ref,
                                ![symbol].needsReinitialization = TRUE]
                         /\ PairHandled(symbol, "gap")
                    ELSE /\ marketData' = [marketData EXCEPT
                                ![symbol].previousOrderBook = copied.ref,
                                ![symbol].orderBook = updatedOrderBook.ref,
                                ![symbol].needsReinitialization = FALSE]
                         /\ PairHandled(symbol, "depth")

\* The snapshot object getOrderBookSnapshot builds for a response.
SnapshotOnHeap(response, time) ==
    NewBook(marketHeap.objects, ParseLevels(response.bids),
            ParseLevels(response.asks), response.lastUpdateId, time)

\* synchronizeOrderBookSnapshots for one pair, with a snapshot: lines
\* 1239-1243.
SynchronizeOrderBookSnapshot(symbol, response) ==
    /\ marketData[symbol].bufferingUpdates
    /\ LET snapshot == SnapshotOnHeap(response, pairOps + 1)
       IN  /\ marketHeap' = [marketHeap EXCEPT !.objects = snapshot.heap]
           /\ marketData' = [marketData EXCEPT
                               ![symbol].orderBook = snapshot.ref,
                               ![symbol].bufferingUpdates = FALSE]
    /\ PairHandled(symbol, "snapshot")

\* reinitializeOrderBook(symbol), with a snapshot: lines 1394-1404.
ReinitializeOrderBookOf(symbol, response) ==
    /\ marketData[symbol].needsReinitialization
    /\ LET snapshot == SnapshotOnHeap(response, pairOps + 1)
       IN  /\ marketHeap' = [marketHeap EXCEPT !.objects = snapshot.heap]
           /\ marketData' = [marketData EXCEPT
                               ![symbol].orderBook = snapshot.ref,
                               ![symbol].needsReinitialization = FALSE]
    /\ PairHandled(symbol, "reinitialized")

\* processKlineData(symbol, data), lines 1293-1315: push, shift and the
\* assignment to the last element change the array of the pair in place.
ProcessKlineDataOf(symbol, data) ==
    LET array == marketData[symbol].candles
        list == marketHeap.candles[array]
        kline == data.k
        candle == Candle(kline.t, kline.c)
        pushed == Append(list, candle)
    IN  /\ marketHeap' = [marketHeap EXCEPT !.candles[array] =
               IF kline.x
               THEN IF Len(pushed) > maxCandles THEN shift(pushed) ELSE pushed
               ELSE IF Len(list) > 0
                    THEN [list EXCEPT ![Len(list)] = candle]
                    ELSE list]
        /\ UNCHANGED marketData
        /\ PairHandled(symbol, "kline")

NextMarket ==
    \E symbol \in Symbols :
        \/ \E data \in PairDepthEvents(
                   marketHeap.objects.books[marketData[symbol].orderBook].lastUpdateId) :
               ProcessDepthDataOf(symbol, data)
        \/ \E response \in FewSnapshotResponses :
               SynchronizeOrderBookSnapshot(symbol, response)
        \/ \E response \in FewSnapshotResponses :
               ReinitializeOrderBookOf(symbol, response)
        \/ \E data \in PairKlineEvents(marketHeap.candles[marketData[symbol].candles]) :
               ProcessKlineDataOf(symbol, data)

SpecMarket == Init /\ [][NextMarket]_vars

\* C28: a depth event, a kline event, a detected gap or a snapshot install
\* handled for one pair leaves the candles, the book, the previous book and
\* the needsReinitialization and bufferingUpdates flags of every other
\* pair as they were.
C28_OtherPairsUntouched ==
    [][\A other \in Symbols :
           other # pairOp'.symbol
               => PairValue(marketData', marketHeap', other)
                      = PairValue(marketData, marketHeap, other)]_<<marketData, marketHeap>>

\* C28's case: a gap was detected for one pair after the other pair had
\* received a snapshot, a depth event or candles of its own.
C28_Witness ==
    /\ pairOp.op = "gap"
    /\ \E other \in Symbols :
           /\ other # pairOp.symbol
           /\ PairValue(marketData, marketHeap, other)
                  # PairValue(initializeMarketData(Symbols).data,
                              initializeMarketData(Symbols).heap, other)

-----------------------------------------------------------------------------
(* The reinitialisation of a pair with no analysis loop running            *)

\* The pair with its depth stream, its initial synchronisation and its
\* reinitialisation timer; analyzeMarket is never called.
NextReinit ==
    \/ \E data \in FewDepthEvents(orderBook.lastUpdateId) :
           ProcessDepthDataLive(data) /\ UNCHANGED heapVars
    \/ \E response \in FewSnapshotResponses :
           SyncInstall(response) /\ UNCHANGED heapVars
    \/ ReinitTimerFires
    \/ \E response \in FewSnapshotResponses : ReinitInstall(response)
    \/ ReinitFetchFails

SpecReinit == Init /\ [][NextReinit]_vars

\* A timer that is set fires, and the snapshot fetches succeed again: of
\* the attempts that keep being made, one obtains its snapshot.
SpecReinitFair ==
    /\ SpecReinit
    /\ WF_vars(ReinitTimerFires)
    /\ SF_vars(\E response \in FewSnapshotResponses : ReinitInstall(response))

\* A reinitialisation attempt has failed to obtain a snapshot and the pair
\* is still marked.
ReinitAttemptFailed ==
    /\ last.op = "reinit"
    /\ last.outcome = "failed"
    /\ needsReinitialization

\* C31: after a reinitialisation attempt that obtained no snapshot another
\* attempt is made, so that with fetches succeeding again a fresh snapshot
\* is eventually installed and needsReinitialization cleared, with no
\* analysis loop running.
\* (Date.now() is followed up to MaxTime: a behaviour that has reached it
\* says nothing.)
C31_ReinitRetried ==
    ReinitAttemptFailed
        ~> \/ last.op = "reinit" /\ last.outcome = "installed" /\ ~needsReinitialization
           \/ now = MaxTime


\* C32: once needsReinitialization is set, no depth event clears it: it is
\* cleared only by the installation of a fresh snapshot.
C32_FlagClearedBySnapshotOnly ==
    [][needsReinitialization /\ ~needsReinitialization' => last'.op # "depth"]_needsReinitialization


\* C33: a depth event with u > L and U <= L + 100, L the lastUpdateId of
\* the book, is not reported as a gap: it is applied and lastUpdateId
\* becomes u, also when U > L + 1.
C33_WithinThresholdApplied ==
    (/\ AfterDepthEvent
     /\ previousOrderBook.lastUpdateId # NoUpdateId
     /\ last.data.u > previousOrderBook.lastUpdateId
     /\ last.data.U <= previousOrderBook.lastUpdateId + 100)
    => /\ last.outcome = "applied"
       /\ ~needsReinitialization
       /\ orderBook.lastUpdateId = last.data.u

\* C33's case: an event that skips update ids, at the threshold, was
\* applied: lastUpdateId 10, U 110.
C33_Witness ==
    /\ AfterDepthEvent
    /\ previousOrderBook.lastUpdateId = 10
    /\ last.data.U = 110
    /\ orderBook.lastUpdateId = last.data.u

-----------------------------------------------------------------------------
(* Alerts of a bot in either mode                                          *)

\* The bot is constructed with testMode false or true.
InitAlertModes ==
    /\ InitPair /\ InitDecision /\ InitHeap
    /\ InitScore /\ InitAlert /\ InitKline /\ InitLoop
    /\ InitPriceVars /\ InitBookSignalVars /\ InitBootVars /\ InitMarketVars
    /\ InitDepthCall /\ InitSockets
    /\ botTestMode \in BOOLEAN

SpecAlertModes == InitAlertModes /\ [][NextAlert]_vars

-----------------------------------------------------------------------------
(* Properties of the decision against the trend of the book                *)

\* C35: no long decision while the order-book signals report a downtrend
\* and no short decision while they report an uptrend.
C35_NoSignalAgainstBookTrend ==
    /\ compositeSignal = "long" => ~obAnalysis.inDowntrend
    /\ compositeSignal = "short" => ~obAnalysis.inUptrend

\* C35's case: a book in a downtrend under candle signals that give the long
\* side every point they can: 9 points less the penalty of 3.
C35_Witness ==
    /\ Decided
    /\ obAnalysis.inDowntrend
    /\ signalScore.long = 6
    /\ compositeSignal # "long"

-----------------------------------------------------------------------------
(* Properties of the analysis result                                       *)

\* C36: a pair analysed with enough candles and a neutral decision yields
\* an analysis result: calculateSuggestedPrices raises no error on the
\* price calculator of the bot.
C36_NeutralYieldsResult ==
    (/\ analysis["BTCUSDT"] # "idle"
     /\ HasEnoughCandles(candles)
     /\ compositeSignal = "neutral")
    => analysis["BTCUSDT"] = "result"

-----------------------------------------------------------------------------
(* The depth-update functions, called on their own                         *)

\* The books a caller passes: none (`!currentOrderBook`), the empty book of
\* initializeMarketData, and the snapshots.  None holds a level of
\* quantity 0.
CallBooks ==
    {null, InitialOrderBook}
    \cup {getOrderBookSnapshot(response, 0) : response \in FewSnapshotResponses}

\* The update id a book stands at, for the events that follow it.
BookUpdateId(book) == IF book = null THEN NoUpdateId ELSE book.lastUpdateId

InitDepthCalls ==
    /\ InitPair /\ InitDecision /\ InitHeap
    /\ InitScore /\ InitAlert /\ InitKline /\ InitLoop
    /\ InitPriceVars /\ InitBookSignalVars /\ InitBootVars /\ InitMarketVars
    /\ botTestMode = FALSE
    /\ InitSockets
    /\ \E book \in CallBooks :
           \E data \in DepthEvents(BookUpdateId(book)) :
               depthCall = [fn |-> "none", data |-> data,
                            currentOrderBook |-> book, returned |-> null]

\* ExchangeManager.processIncrementalDepthUpdate(data, currentOrderBook)
CallProcessIncrementalDepthUpdate ==
    /\ depthCall.fn = "none"
    /\ depthCall' =
           [depthCall EXCEPT
               !.fn = "processIncrementalDepthUpdate",
               !.returned = processIncrementalDepthUpdate(depthCall.data,
                                depthCall.currentOrderBook, 1)]
    /\ UNCHANGED <<pairVars, decisionVars, heapVars, scoreVars, alertVars,
                   klineVars, loopVars, priceVars, bookSignalVars, bootVars,
                   marketVars, botTestMode, socketVars>>

\* BinancePredictiveBot.applyDepthUpdate(data, currentOrderBook)
CallApplyDepthUpdate ==
    /\ depthCall.fn = "none"
    /\ depthCall' =
           [depthCall EXCEPT
               !.fn = "applyDepthUpdate",
               !.returned = applyDepthUpdate(depthCall.data,
                                depthCall.currentOrderBook, 1)]
    /\ UNCHANGED <<pairVars, decisionVars, heapVars, scoreVars, alertVars,
                   klineVars, loopVars, priceVars, bookSignalVars, bootVars,
                   marketVars, botTestMode, socketVars>>

NextDepthCall == CallProcessIncrementalDepthUpdate \/ CallApplyDepthUpdate

SpecDepthCall == InitDepthCalls /\ [][NextDepthCall]_vars

\* No level of either side has quantity 0.
NoZeroQuantity(book) ==
    /\ \A i \in 1..Len(book.bids) : book.bids[i][2] # 0
    /\ \A i \in 1..Len(book.asks) : book.asks[i][2] # 0

-----------------------------------------------------------------------------
(* The order of the stored candles                                         *)

\* C38: the open times of the stored candles are strictly increasing after
\* any sequence of kline events of an in-order feed: no interval is stored
\* twice.
C38_OpenTimesIncreasing ==
    \A i \in 1..(Len(candles) - 1) : candles[i][1] < candles[i + 1][1]

-----------------------------------------------------------------------------
(* ExchangeManager: the kline and depth connections, and shutdown          *)

LoopRest == <<loopPc, analysis, cyclesStarted, cyclesFinished, output, shutdownAt>>

\* Everything but isRunning and the connections.
OutsideSockets ==
    <<pairVars, decisionVars, heapVars, scoreVars, alertVars, klineVars,
      priceVars, bookSignalVars, bootVars, marketVars, depthCall, botTestMode,
      LoopRest>>

SocketOp(op, id, forwarded) ==
    [op |-> op, id |-> id, forwarded |-> forwarded, repeat |-> socketOp.op = op]

\* `if (this.isShuttingDown) { resolve(); return; }`, the first statement of
\* connectKlineSocket and of connectDepthSocket.
SkipsConnection(shuttingDown) == shuttingDown

\* OpenHandlerCloses without the test of isShuttingDown.
OpenHandlerNeverCloses(shuttingDown) == FALSE

\* `if (this.isShuttingDown) { ws.close(); return; }` of the 'open' handler.
OpenHandlerCloses(shuttingDown) == shuttingDown

\* The next WebSocket object of a table of objects, the next timer.
FreeWs(objects) == {id \in WsIds : objects[id].state = "none"}
NewWs(objects) == CHOOSE id \in FreeWs(objects) : \A other \in FreeWs(objects) : id <= other
FreeTimers == {t \in TimerIds : timers[t].key = "none"}
NewTimer == CHOOSE t \in FreeTimers : \A other \in FreeTimers : t <= other

\* connectKlineSocket / connectDepthSocket to the end of the promise
\* executor: a new WebSocket with its handlers, registered under its key.
\* `awaited` says whether the boot sequence awaits the promise.
connectSocket(net, key, awaited) ==
    IF SkipsConnection(isShuttingDown) THEN net
    ELSE LET id == NewWs(net.ws)
         IN  [ws |-> [net.ws EXCEPT ![id] = [key |-> key, state |-> "connecting",
                                             closeListener |-> TRUE,
                                             closedBy |-> "none",
                                             awaited |-> awaited]],
              sockets |-> [net.sockets EXCEPT ![key] = id]]

\* subscribeToKline / subscribeToDepth after the callback is pushed:
\* `if (!this.sockets[key]) await this.connect...Socket(pair)`.
subscribeTo(net, key) ==
    IF net.sockets[key] = NoSocket THEN connectSocket(net, key, TRUE) ELSE net

\* clearTimeout of every timer of reconnectTimeouts.
ClearedTimers ==
    [t \in TimerIds |->
        IF \E key \in SocketKeys : reconnectTimeouts[key] = t
        THEN [timers[t] EXCEPT !.pending = FALSE]
        ELSE timers[t]]

\* resetShutdownState, lines 525-533.
resetShutdownState ==
    /\ isShuttingDown' = FALSE
    /\ timers' = ClearedTimers
    /\ reconnectTimeouts' = [key \in SocketKeys |-> NoTimer]

\* closeAllConnections without `this.sockets = {}`.
SocketsKept(registered) == registered

\* `this.sockets = {}`
SocketsAfterClose(registered) == [key \in SocketKeys |-> NoSocket]

\* closeAllConnections, lines 490-522: the registered sockets lose their
\* 'close' listeners, and those that are OPEN are closed.
closeAllConnections ==
    /\ isShuttingDown' = TRUE
    /\ timers' = ClearedTimers
    /\ reconnectTimeouts' = [key \in SocketKeys |-> NoTimer]
    /\ ws' = [id \in WsIds |->
                 IF \E key \in SocketKeys : sockets[key] = id
                 THEN [ws[id] EXCEPT
                          !.closeListener = FALSE,
                          !.state = IF @ = "open" THEN "closing" ELSE @,
                          !.closedBy = IF ws[id].state = "open"
                                       THEN "closeAllConnections" ELSE @]
                 ELSE ws[id]]
    /\ subscribers' = [key \in SocketKeys |-> FALSE]
    /\ sockets' = SocketsAfterClose(sockets)

\* executeBootSequence of a live bot, lines 38-45: resetShutdownState,
\* and for a restart the first statement of executeShutdownSequence.
BootBegins(isRestart) ==
    /\ ~botTestMode
    /\ exchangeBoot = (IF isRestart THEN "started" ELSE "none")
    /\ resetShutdownState
    /\ isRunning' = (IF isRestart THEN FALSE ELSE isRunning)
    /\ exchangeBoot' = (IF isRestart THEN "stopping" ELSE "reset")
    /\ ws' = [id \in WsIds |-> [ws[id] EXCEPT !.awaited = FALSE]]
    /\ socketOp' = SocketOp("resetShutdownState", 0, FALSE)
    /\ UNCHANGED <<sockets, subscribers>>
    /\ UNCHANGED OutsideSockets

\* executeShutdownSequence after its wait, line 97.
ShutdownSequenceCloses ==
    /\ exchangeBoot = "stopping"
    /\ closeAllConnections
    /\ exchangeBoot' = "stopped"
    /\ socketOp' = SocketOp("closeAllConnections", 0, FALSE)
    /\ UNCHANGED isRunning
    /\ UNCHANGED OutsideSockets

\* executeBootSequence of a restart after its wait, line 44.
RestartResets ==
    /\ exchangeBoot = "stopped"
    /\ resetShutdownState
    /\ exchangeBoot' = "reset"
    /\ socketOp' = SocketOp("resetShutdownState", 0, FALSE)
    /\ UNCHANGED <<sockets, ws, subscribers, isRunning>>
    /\ UNCHANGED OutsideSockets

\* connectWebSocketStreams, lines 1212-1223, after init (which writes
\* isShuttingDown = false, line 136) and fetchInitialCandles: both
\* subscriptions are made in one synchronous block.
ConnectWebSocketStreams ==
    /\ exchangeBoot = "reset"
    /\ SkipsConnection(isShuttingDown) \/ Cardinality(FreeWs(ws)) >= Cardinality(SocketKeys)
    /\ LET kline == subscribeTo([ws |-> ws, sockets |-> sockets], "BTCUSDT_kline")
           depth == subscribeTo(kline, "BTCUSDT_depth")
       IN  ws' = depth.ws /\ sockets' = depth.sockets
    /\ subscribers' = [key \in SocketKeys |-> TRUE]
    /\ exchangeBoot' = "subscribed"
    /\ socketOp' = SocketOp("subscribe", 0, FALSE)
    /\ UNCHANGED <<isShuttingDown, reconnectTimeouts, timers, isRunning>>
    /\ UNCHANGED OutsideSockets

\* The end of executeBootSequence, lines 68-71, once the promises of the
\* connections it awaits are resolved.
StartAnalysisLive ==
    /\ exchangeBoot = "subscribed"
    /\ \A id \in WsIds : ~ws[id].awaited
    /\ isRunning' = TRUE
    /\ exchangeBoot' = "started"
    /\ socketOp' = SocketOp("startAnalysis", 0, FALSE)
    /\ UNCHANGED <<isShuttingDown, sockets, ws, reconnectTimeouts, timers, subscribers>>
    /\ UNCHANGED OutsideSockets

\* executeBootSequence of a test bot, lines 17-35, with startAnalysis.
BootTestBot ==
    /\ botTestMode
    /\ exchangeBoot = "none"
    /\ isRunning' = TRUE
    /\ exchangeBoot' = "started"
    /\ socketOp' = SocketOp("startAnalysis", 0, FALSE)
    /\ UNCHANGED <<isShuttingDown, sockets, ws, reconnectTimeouts, timers, subscribers>>
    /\ UNCHANGED OutsideSockets

\* The 'open' handler of a socket: lines 253-260 and 321-329.
WsOpen(id) ==
    /\ ws[id].state = "connecting"
    /\ ws' = [ws EXCEPT ![id] =
                 IF OpenHandlerCloses(isShuttingDown)
                 THEN [@ EXCEPT !.state = "closing", !.closedBy = "open handler"]
                 ELSE [@ EXCEPT !.state = "open", !.awaited = FALSE]]
    /\ socketOp' = SocketOp("open", id, FALSE)
    /\ UNCHANGED <<isShuttingDown, sockets, reconnectTimeouts, timers, subscribers,
                   exchangeBoot, isRunning>>
    /\ UNCHANGED OutsideSockets

\* The 'message' handler: lines 262-268 and 331-350.
WsMessage(id) ==
    /\ ws[id].state \in {"open", "closing"}
    /\ socketOp' = SocketOp("message", id,
                            ~isShuttingDown /\ subscribers[ws[id].key])
    /\ UNCHANGED <<isShuttingDown, sockets, ws, reconnectTimeouts, timers, subscribers,
                   exchangeBoot, isRunning>>
    /\ UNCHANGED OutsideSockets

\* The socket closes (by the peer, by an error, by the health check of the
\* depth socket, or at the end of a close()), and its 'close' listener, if
\* it still has one, runs: lines 270-287 and 352-368.
WsClose(id) ==
    /\ ws[id].state \in {"connecting", "open", "closing"}
    /\ ws' = [ws EXCEPT ![id].state = "closed"]
    /\ IF ws[id].closeListener
       THEN /\ sockets' = [sockets EXCEPT ![ws[id].key] = NoSocket]
            /\ IF ~isShuttingDown
               THEN /\ FreeTimers # {}
                    /\ timers' = [timers EXCEPT ![NewTimer] =
                                     [key |-> ws[id].key, pending |-> TRUE]]
                    /\ reconnectTimeouts' =
                           [reconnectTimeouts EXCEPT ![ws[id].key] = NewTimer]
               ELSE UNCHANGED <<timers, reconnectTimeouts>>
       ELSE UNCHANGED <<sockets, timers, reconnectTimeouts>>
    /\ socketOp' = SocketOp("close", id, FALSE)
    /\ UNCHANGED <<isShuttingDown, subscribers, exchangeBoot, isRunning>>
    /\ UNCHANGED OutsideSockets

\* A reconnection timer fires: lines 276-280 and 362-366.
TimerFires(t) ==
    /\ timers[t].pending
    /\ timers' = [timers EXCEPT ![t].pending = FALSE]
    /\ IF ~isShuttingDown
       THEN /\ FreeWs(ws) # {}
            /\ LET net == connectSocket([ws |-> ws, sockets |-> sockets],
                                        timers[t].key, FALSE)
               IN  ws' = net.ws /\ sockets' = net.sockets
       ELSE UNCHANGED <<ws, sockets>>
    /\ socketOp' = SocketOp("timer", t, FALSE)
    /\ UNCHANGED <<isShuttingDown, reconnectTimeouts, subscribers, exchangeBoot,
                   isRunning>>
    /\ UNCHANGED OutsideSockets

\* BinancePredictiveBot.shutdown, lines 1828-1836, as the signal handlers
\* and the exit handler of index.js call it.
ShutdownBot ==
    /\ isRunning' = FALSE
    /\ IF ~botTestMode
       THEN closeAllConnections
       ELSE UNCHANGED <<isShuttingDown, sockets, ws, reconnectTimeouts, timers,
                        subscribers>>
    /\ socketOp' = SocketOp("shutdown", 0, FALSE)
    /\ UNCHANGED exchangeBoot
    /\ UNCHANGED OutsideSockets

NextSockets ==
    \/ \E isRestart \in BOOLEAN : BootBegins(isRestart)
    \/ ShutdownSequenceCloses
    \/ RestartResets
    \/ ConnectWebSocketStreams
    \/ StartAnalysisLive
    \/ BootTestBot
    \/ \E id \in WsIds : WsOpen(id)
    \/ \E id \in WsIds : WsMessage(id)
    \/ \E id \in WsIds : WsClose(id)
    \/ \E t \in TimerIds : TimerFires(t)
    \/ ShutdownBot

InitSocketModes ==
    /\ InitPair /\ InitDecision /\ InitHeap
    /\ InitScore /\ InitAlert /\ InitKline /\ InitLoop
    /\ InitPriceVars /\ InitBookSignalVars /\ InitBootVars /\ InitMarketVars
    /\ InitDepthCall /\ InitSockets
    /\ botTestMode \in BOOLEAN

SpecSockets == InitSocketModes /\ [][NextSockets]_vars

\* C39: while isShuttingDown stays set (from closeAllConnections until
\* resetShutdownState) no WebSocket is constructed, none is left open by its
\* 'open' handler, none is registered, and no message is forwarded to a
\* subscriber; this holds also for a socket that was connecting when the
\* connections were closed.
C39_QuietWhileShuttingDown ==
    [][(isShuttingDown /\ isShuttingDown') =>
          /\ \A id \in WsIds :
                 /\ ws[id].state = "none" => ws'[id].state = "none"
                 /\ ws'[id].state = "open" => ws[id].state = "open"
          /\ \A key \in SocketKeys : sockets'[key] = NoSocket
          /\ ~(socketOp'.op = "message" /\ socketOp'.forwarded)]_socketVars

\* C39's case: the connections were closed while a socket was connecting;
\* the socket has since opened and its 'open' handler has closed it.
C39_Witness ==
    /\ isShuttingDown
    /\ socketOp.op = "open"
    /\ ws[socketOp.id].closedBy = "open handler"
    /\ ws[socketOp.id].state = "closing"

\* C40: every call of shutdown leaves isRunning false, no socket registered
\* and, on a bot with an exchange manager, reconnection disabled; a call that
\* follows another call directly changes nothing.
C40_ShutdownIdempotent ==
    [][socketOp'.op = "shutdown" =>
          /\ ~isRunning'
          /\ \A key \in SocketKeys : sockets'[key] = NoSocket
          /\ ~botTestMode => isShuttingDown'
          /\ socketOp.op = "shutdown" =>
                 UNCHANGED <<isRunning, isShuttingDown, sockets, ws,
                             reconnectTimeouts, timers, subscribers>>]_<<socketVars, isRunning>>

\* C40's case: shutdown was called twice in a row on a bot that had been
\* started and had an open socket.
C40_Witness ==
    /\ socketOp.op = "shutdown"
    /\ socketOp.repeat
    /\ \E id \in WsIds : ws[id].closedBy = "closeAllConnections"
====
